---- MODULE Spec2Model ----
(***************************************************************************)
(* A model of the listing glue of the dashboard and visualization plugins: *)
(* the dashboard delete batch (use_dashboard_listing_table.tsx), the       *)
(* listing adapters' find (find_items.ts, find_visualizations.ts), the     *)
(* visualizations table props (get_table_list.tsx), the email option       *)
(* helper (email_params.tsx), the registration shim (plugin.ts), the tabs  *)
(* and the create button of the dashboard listing, the default message of  *)
(* the email action form, the thresholds of the TLS rule form and the      *)
(* PositiveInteger type.                                                   *)
(*                                                                         *)
(* Each subsystem has its own variables and its own specification; a       *)
(* specification leaves the other subsystems' variables untouched.         *)
(***************************************************************************)
EXTENDS Integers, Sequences, FiniteSets, TLC

VARIABLES
  \* ---- dashboard deleteItems (use_dashboard_listing_table.tsx) ----
  savedDashboards,      \* ids the backend holds (dashboardClient)
  backupState,          \* ids the backup service holds unsaved state for
  unsavedDashboardIds,  \* the hook's useState value
  dashboardsToDelete,   \* the argument of the deleteItems call in progress
  delIdx,               \* index of the item whose delete is awaited (0: none)
  delPc,                \* "idle" | "awaitDelete" | "done"
  delLog,               \* effects of the current deleteItems call, in order
  \* ---- visualizations deleteItemsHandler (get_table_list.tsx) ----
  visDelPc,             \* "idle" | "awaitDeleteListItems" | "done" | "rejected"
  visDelLog,            \* effects of the current handler call, in order
  \* ---- the listing adapters' find (find_items.ts, get_table_list.tsx) ----
  listing,              \* the mounted tab: "dashboard" | "visualization"
  listingLimit,         \* uiSettings 'savedObjects:listingLimit'
  taggingAvailable,     \* whether savedObjectsTaggingService is defined
  pendingFinds,         \* find calls awaiting the backend, in issue order
  visualizedUserContent,\* the useRef of get_table_list.tsx (None: undefined)
  lastFind,             \* the find call that resolved last (None: none yet)
  lastOutcome,          \* how the last settled find call ended
  lastFailure,          \* the failure of the last settled find call (None: it
                        \* succeeded, or none has settled)
  \* ---- the table props (get_table_list.tsx, use_dashboard_listing_table.tsx)
  showWriteControls,    \* getDashboardCapabilities().showWriteControls
  visualizeCapabilities,\* capabilities.visualize_v2: save and delete, optional
  tableProps,           \* the props of the mounted table (None: not mounted)
  row,                  \* the row the table rendered last (None: none yet)
  click,                \* the last click on a row title (None: none yet)
  \* ---- the content editor (contentEditor.customValidators.title) ----
  validation,           \* the last run of the title validator (None: none yet)
  saved,                \* the last call of contentEditor.onSave (None: none yet)
  \* ---- getFormattedEmailOptions (email_params.tsx) ----
  emailInput,           \* [searchValue, previousOptions] of the call
  emailOutput,          \* what the call returned (None: not called yet)
  \* ---- VisualizationListingPlugin (plugin.ts) ----
  lifecycle,            \* "constructed" | "setup" | "started"
  dashboard,            \* dependencies.dashboard: None, or Some(its registry)
  setupOutcome,         \* "none" | "returned" | "threw"
  pluginLog,            \* what the plugin has logged
  tabCalls,             \* the invocations of the tab's getTableList
  \* ---- getDashboardListingTabs (the listing tabs module) ----------
  listingViewRegistry,  \* the registry Set in insertion order (None: undefined)
  registrations,        \* every listingViewRegistry.add call so far, in order
  listingTabs,          \* the last call of getDashboardListingTabs (None: none)
  \* ---- createItem of the dashboard listing (dashboard_listing_table.tsx) ----
  useSessionStorageIntegration, \* the prop of the listing
  hasUnsavedEdits,      \* dashboardBackupService.dashboardHasUnsavedEdits()
  createPc,             \* "listing" | "confirming" | "editor"
  createLog,            \* what createItem and the overlay did, in order
  \* ---- EmailParamsFields: the default message effect (email_params.tsx) ----
  paramsMounted,        \* whether the component has been mounted
  useDefaultMessage,    \* the prop
  defaultMessage,       \* the prop (None: undefined)
  actionMessage,        \* actionParams.message (None: undefined)
  defaultMessageUsage,  \* the useState pair [isUsingDefault, defaultMessageUsed]
  appliedLast,          \* the default the effect applied last (None: none yet)
  lastEffect,           \* the last run of the effect (None: none yet)
  \* ---- TLSRuleComponent (tls_rule_ui.tsx) ----
  ruleParams,           \* the rule's certAgeThreshold and certExpirationThreshold
  settings,             \* selectDynamicSettings(state).settings (None: undefined)
  settingsFetch,        \* "none" | "pending" | "done": getDynamicSettingsAction
  tlsProps,             \* the props of AlertTlsComponent (None: not rendered)
  \* ---- PositiveInteger.decode (the positive integer type and its tests) ----
  payload,              \* the value handed to decode
  decoded               \* the folded result of decode (None: not decoded yet)

visDelVars == <<visDelPc, visDelLog>>

delVars == <<savedDashboards, backupState, unsavedDashboardIds,
             dashboardsToDelete, delIdx, delPc, delLog, visDelVars>>

findVars == <<listing, listingLimit, taggingAvailable, pendingFinds,
              visualizedUserContent, lastFind, lastOutcome, lastFailure>>

propsVars == <<showWriteControls, visualizeCapabilities, tableProps, row, click>>

editorVars == <<validation, saved>>

emailVars == <<emailInput, emailOutput>>

pluginVars == <<lifecycle, dashboard, setupOutcome, pluginLog, tabCalls>>

tabsVars == <<listingViewRegistry, registrations, listingTabs>>

createVars == <<useSessionStorageIntegration, hasUnsavedEdits, createPc, createLog>>

messageVars == <<paramsMounted, useDefaultMessage, defaultMessage, actionMessage,
                 defaultMessageUsage, appliedLast, lastEffect>>

tlsVars == <<ruleParams, settings, settingsFetch, tlsProps>>

decodeVars == <<payload, decoded>>

vars == <<delVars, findVars, propsVars, editorVars, emailVars, pluginVars,
          tabsVars, createVars, messageVars, tlsVars, decodeVars>>

\* What the actions of one subsystem leave alone.
notDelVars == <<findVars, propsVars, editorVars, emailVars, pluginVars,
                tabsVars, createVars, messageVars, tlsVars, decodeVars>>
notFindVars == <<delVars, propsVars, editorVars, emailVars, pluginVars,
                 tabsVars, createVars, messageVars, tlsVars, decodeVars>>
notPropsVars == <<delVars, findVars, editorVars, emailVars, pluginVars,
                  tabsVars, createVars, messageVars, tlsVars, decodeVars>>
notEditorVars == <<delVars, findVars, propsVars, emailVars, pluginVars,
                   tabsVars, createVars, messageVars, tlsVars, decodeVars>>
notEmailVars == <<delVars, findVars, propsVars, editorVars, pluginVars,
                  tabsVars, createVars, messageVars, tlsVars, decodeVars>>
notPluginVars == <<delVars, findVars, propsVars, editorVars, emailVars,
                   tabsVars, createVars, messageVars, tlsVars, decodeVars>>
notTabsVars == <<delVars, findVars, propsVars, editorVars, emailVars,
                 pluginVars, createVars, messageVars, tlsVars, decodeVars>>
notCreateVars == <<delVars, findVars, propsVars, editorVars, emailVars,
                   pluginVars, tabsVars, messageVars, tlsVars, decodeVars>>
notMessageVars == <<delVars, findVars, propsVars, editorVars, emailVars,
                    pluginVars, tabsVars, createVars, tlsVars, decodeVars>>
notTlsVars == <<delVars, findVars, propsVars, editorVars, emailVars,
                pluginVars, tabsVars, createVars, messageVars, decodeVars>>
notDecodeVars == <<delVars, findVars, propsVars, editorVars, emailVars,
                   pluginVars, tabsVars, createVars, messageVars, tlsVars>>

(***************************************************************************)
(* Optional values: undefined is None, a defined value x is Some(x).       *)
(***************************************************************************)
None == <<>>
Some(x) == <<x>>
IsSome(o) == o # <<>>
TheValue(o) == o[1]

RECURSIVE SeqsUpTo(_, _)
SeqsUpTo(S, n) ==
  IF n = 0 THEN {<<>>}
  ELSE LET shorter == SeqsUpTo(S, n - 1)
       IN  shorter \cup {Append(s, x) : s \in shorter, x \in S}

Range(s) == {s[i] : i \in 1..Len(s)}

(***************************************************************************)
(* Dashboard deleteItems.                                                  *)
(***************************************************************************)
DashboardIds == {"d1", "d2", "d3"}

\* The longest batch handed to deleteItems.
MaxBatch == 3

Effect(op, arg) == [op |-> op, arg |-> arg]

\* A variant of clearState that ignores the id and drops every backup state.
clearStateAll(backup, id) == {}

\* dashboardBackupService.clearState(id)
clearState(backup, id) == backup \ {id}

\* dashboardBackupService.getDashboardIdsWithUnsavedChanges()
getDashboardIdsWithUnsavedChanges(backup) == backup

\* asyncMap(items, fn) of @kbn/std: one item at a time, in order; a rejection
\* ends the iteration.  The index of the item to start after item k settled
\* (ok: it resolved), 0 when the mapping is over.
asyncMap(items, k, ok) == IF ok /\ k < Len(items) THEN k + 1 ELSE 0

\* Lines 151-159: the timing event reported after asyncMap resolved.
reportDeleteTime(items) == Effect("reportPerformanceMetricEvent", Len(items))

\* Line 166, reached from the try block and from the catch block alike.
DeleteItemsReturn(backup, log) ==
  /\ unsavedDashboardIds' = getDashboardIdsWithUnsavedChanges(backup)
  /\ delLog' = Append(log, Effect("setUnsavedDashboardIds", Cardinality(backup)))
  /\ delIdx' = 0
  /\ delPc' = "done"

\* deleteItems(dashboardsToDelete) is called by the table: it starts the delete
\* of the first item, or returns at once for an empty batch.
DeleteItemsCall ==
  /\ delPc # "awaitDelete"
  /\ \E items \in SeqsUpTo(DashboardIds, MaxBatch) :
       /\ dashboardsToDelete' = items
       /\ IF asyncMap(items, 0, TRUE) = 0
          THEN DeleteItemsReturn(backupState, <<reportDeleteTime(items)>>)
          ELSE /\ delIdx' = 1
               /\ delPc' = "awaitDelete"
               /\ delLog' = <<Effect("delete", items[1])>>
               /\ UNCHANGED unsavedDashboardIds
  /\ UNCHANGED <<savedDashboards, backupState, visDelVars, notDelVars>>

\* dashboardClient.delete(id) resolves: the backup state of id is cleared and
\* asyncMap starts the next item, or the batch is over.
DeleteResolved ==
  /\ delPc = "awaitDelete"
  /\ LET id == dashboardsToDelete[delIdx]
         next == asyncMap(dashboardsToDelete, delIdx, TRUE)
         backup == clearState(backupState, id)
         log == delLog \o <<Effect("deleted", id), Effect("clearState", id)>>
     IN  /\ id \in savedDashboards
         /\ savedDashboards' = savedDashboards \ {id}
         /\ backupState' = backup
         /\ IF next = 0
            THEN DeleteItemsReturn(backup,
                                   Append(log, reportDeleteTime(dashboardsToDelete)))
            ELSE /\ delIdx' = next
                 /\ delLog' = Append(log, Effect("delete", dashboardsToDelete[next]))
                 /\ UNCHANGED <<unsavedDashboardIds, delPc>>
  /\ UNCHANGED <<dashboardsToDelete, visDelVars, notDelVars>>

\* A variant of the rejection handler that catches inside the per-item callback
\* and goes on with the next item.
DeleteRejectedPerItemCatch ==
  /\ delPc = "awaitDelete"
  /\ LET next == asyncMap(dashboardsToDelete, delIdx, TRUE)
         log == Append(delLog, Effect("addError", dashboardsToDelete[delIdx]))
     IN  IF next = 0
         THEN DeleteItemsReturn(backupState, log)
         ELSE /\ delIdx' = next
              /\ delLog' = Append(log, Effect("delete", dashboardsToDelete[next]))
              /\ UNCHANGED <<unsavedDashboardIds, delPc>>
  /\ UNCHANGED <<savedDashboards, backupState, dashboardsToDelete, visDelVars,
                 notDelVars>>

\* A variant of the rejection handler that reports the timing event from a
\* finally block, so for the failed batch too.
DeleteRejectedReportsTime ==
  /\ delPc = "awaitDelete"
  /\ asyncMap(dashboardsToDelete, delIdx, FALSE) = 0
  /\ DeleteItemsReturn(backupState,
                       delLog \o <<Effect("addError", dashboardsToDelete[delIdx]),
                                   reportDeleteTime(dashboardsToDelete)>>)
  /\ UNCHANGED <<savedDashboards, backupState, dashboardsToDelete, visDelVars,
                 notDelVars>>

\* A variant of the rejection handler that returns from the catch block, so
\* without the reset of unsavedDashboardIds.
DeleteRejectedNoReset ==
  /\ delPc = "awaitDelete"
  /\ asyncMap(dashboardsToDelete, delIdx, FALSE) = 0
  /\ delLog' = Append(delLog, Effect("addError", dashboardsToDelete[delIdx]))
  /\ delIdx' = 0
  /\ delPc' = "done"
  /\ UNCHANGED <<savedDashboards, backupState, unsavedDashboardIds,
                 dashboardsToDelete, visDelVars, notDelVars>>

\* dashboardClient.delete(id) rejects: asyncMap rejects, the catch block of
\* deleteItems raises one error toast, and deleteItems returns.
DeleteRejected ==
  /\ delPc = "awaitDelete"
  /\ asyncMap(dashboardsToDelete, delIdx, FALSE) = 0
  /\ DeleteItemsReturn(backupState,
                       Append(delLog, Effect("addError", dashboardsToDelete[delIdx])))
  /\ UNCHANGED <<savedDashboards, backupState, dashboardsToDelete, visDelVars,
                 notDelVars>>

dashDelVars == <<savedDashboards, backupState, unsavedDashboardIds,
                 dashboardsToDelete, delIdx, delPc, delLog>>

\* get_table_list.tsx lines 176-182: the table calls deleteItems(items) of the
\* visualizations listing, which awaits deleteListItems(items, services).
VisDeleteItemsCall ==
  /\ visDelPc # "awaitDeleteListItems"
  /\ visDelPc' = "awaitDeleteListItems"
  /\ visDelLog' = <<Effect("deleteListItems", "items")>>
  /\ UNCHANGED <<dashDelVars, notDelVars>>

\* deleteListItems resolves, and with it the handler's promise.
VisDeleteListItemsResolved ==
  /\ visDelPc = "awaitDeleteListItems"
  /\ visDelPc' = "done"
  /\ visDelLog' = Append(visDelLog, Effect("deleted", "items"))
  /\ UNCHANGED <<dashDelVars, notDelVars>>

\* The handler without its .catch: the rejection of deleteListItems is the
\* rejection of the handler's promise.
VisDeleteListItemsRejectedNoCatch ==
  /\ visDelPc = "awaitDeleteListItems"
  /\ visDelPc' = "rejected"
  /\ visDelLog' = Append(visDelLog, Effect("rejected", "error"))
  /\ UNCHANGED <<dashDelVars, notDelVars>>

\* get_table_list.tsx lines 183-189: deleteListItems rejects; the .catch
\* raises an error toast, and the awaited promise resolves.
VisDeleteListItemsRejected ==
  /\ visDelPc = "awaitDeleteListItems"
  /\ visDelPc' = "done"
  /\ visDelLog' = visDelLog \o <<Effect("rejected", "error"),
                                 Effect("addError", "error")>>
  /\ UNCHANGED <<dashDelVars, notDelVars>>

InitDelete ==
  /\ savedDashboards \in SUBSET DashboardIds
  /\ backupState \in SUBSET DashboardIds
  /\ unsavedDashboardIds = getDashboardIdsWithUnsavedChanges(backupState)
  /\ dashboardsToDelete = <<>>
  /\ delIdx = 0
  /\ delPc = "idle"
  /\ delLog = <<>>
  /\ visDelPc = "idle"
  /\ visDelLog = <<>>

IdleDelete ==
  /\ savedDashboards = {}
  /\ backupState = {}
  /\ unsavedDashboardIds = {}
  /\ dashboardsToDelete = <<>>
  /\ delIdx = 0
  /\ delPc = "idle"
  /\ delLog = <<>>
  /\ visDelPc = "idle"
  /\ visDelLog = <<>>

NextDelete ==
  \/ DeleteItemsCall
  \/ DeleteResolved
  \/ DeleteRejected
  \/ VisDeleteItemsCall
  \/ VisDeleteListItemsResolved
  \/ VisDeleteListItemsRejected

(***************************************************************************)
(* Readings of the effect log of the current deleteItems call.             *)
(***************************************************************************)
IsOp(e, op) == e.op = op
ArgsOf(log, op) ==
  LET sel == SelectSeq(log, LAMBDA e : IsOp(e, op))
  IN  [i \in 1..Len(sel) |-> sel[i].arg]
Attempted == ArgsOf(delLog, "delete")
Deleted == ArgsOf(delLog, "deleted")
Toasts == ArgsOf(delLog, "addError")
IsPrefix(s, t) == Len(s) <= Len(t) /\ s = SubSeq(t, 1, Len(s))

\* C1: deleteItems works through the batch one item at a time in batch order;
\* when the delete of item k fails, exactly the items before k have been
\* deleted, no delete is attempted for an item after k, and the whole batch
\* raises exactly one error notification.
C1_SequentialAbort ==
  /\ IsPrefix(Attempted, dashboardsToDelete)
  /\ IsPrefix(Deleted, Attempted)
  /\ Len(Attempted) - Len(Deleted) - Len(Toasts) = (IF delPc = "awaitDelete" THEN 1 ELSE 0)
  /\ Len(Toasts) <= 1
  /\ Toasts # <<>> =>
       /\ delPc = "done"
       /\ Toasts = <<dashboardsToDelete[Len(Attempted)]>>
       /\ Deleted = SubSeq(dashboardsToDelete, 1, Len(Attempted) - 1)

\* A batch of three whose second delete failed: item 1 deleted, item 3 never
\* attempted, one notification.
C1_Witness ==
  /\ delPc = "done"
  /\ Len(dashboardsToDelete) = 3
  /\ Attempted = SubSeq(dashboardsToDelete, 1, 2)
  /\ Deleted = SubSeq(dashboardsToDelete, 1, 1)
  /\ Len(Toasts) = 1

\* C14: when a backend delete fails, deleteItems of either listing raises an
\* error notification and its promise still resolves; the promise never
\* rejects.  (delPc and visDelPc are "done" when the promise has resolved.)
C14_DeleteFailureNotRethrown ==
  /\ delPc \in {"idle", "awaitDelete", "done"}
  /\ visDelPc \in {"idle", "awaitDeleteListItems", "done"}
  /\ (delPc = "done" /\ Len(Deleted) < Len(Attempted)) => Len(Toasts) = 1
  /\ ArgsOf(visDelLog, "rejected") # <<>> =>
       /\ visDelPc = "done"
       /\ ArgsOf(visDelLog, "addError") = ArgsOf(visDelLog, "rejected")

\* A delete has failed in both listings: each raised its notification and
\* each call has returned.
C14_Witness ==
  /\ delPc = "done"
  /\ Len(Deleted) < Len(Attempted)
  /\ Len(Toasts) = 1
  /\ visDelPc = "done"
  /\ ArgsOf(visDelLog, "rejected") = <<"error">>
  /\ ArgsOf(visDelLog, "addError") = <<"error">>

\* The positions of the log entries of one operation.
Positions(log, op) == {i \in 1..Len(log) : IsOp(log[i], op)}
Reports == ArgsOf(delLog, "reportPerformanceMetricEvent")

\* C23: the backup state of an id is cleared only after the backend delete of
\* that id has succeeded, and before the delete of the next id starts; the
\* step in which a delete fails clears nothing, so the failed id and the ids
\* after it keep their backup state.
C23_ClearStateAfterOwnDelete ==
  /\ [](\A p \in 1..Len(delLog) :
          /\ IsOp(delLog[p], "clearState") =>
               p > 1 /\ delLog[p - 1] = Effect("deleted", delLog[p].arg)
          /\ IsOp(delLog[p], "deleted") =>
               p < Len(delLog) /\ delLog[p + 1] = Effect("clearState", delLog[p].arg)
          /\ (IsOp(delLog[p], "delete") /\ p > 1) =>
               IsOp(delLog[p - 1], "clearState"))
  /\ [][(\A id \in backupState \ backupState' :
            /\ delPc = "awaitDelete"
            /\ id = dashboardsToDelete[delIdx]
            /\ id \in savedDashboards \ savedDashboards'
            /\ Len(ArgsOf(delLog', "deleted")) = Len(Deleted) + 1)
         /\ (Len(ArgsOf(delLog', "addError")) > Len(Toasts) =>
               backupState' = backupState)]_vars

\* A batch of three ids with backup state whose second delete failed: the
\* first id lost its backup state, the failed id and the id after it kept it.
C23_Witness ==
  /\ delPc = "done"
  /\ Len(dashboardsToDelete) = 3
  /\ Deleted = SubSeq(dashboardsToDelete, 1, 1)
  /\ Toasts = <<dashboardsToDelete[2]>>
  /\ dashboardsToDelete[1] \notin backupState
  /\ {dashboardsToDelete[2], dashboardsToDelete[3]} \subseteq backupState
  /\ dashboardsToDelete[2] # dashboardsToDelete[3]

\* C24: a batch in which every delete succeeded reports exactly one timing
\* event, its total is the batch size and it is emitted after the last delete;
\* a batch in which a delete failed reports none, and nothing is reported while
\* a delete is awaited.
C24_OneTimingEventPerSuccessfulBatch ==
  /\ delPc = "awaitDelete" => Reports = <<>>
  /\ Toasts # <<>> => Reports = <<>>
  /\ (delPc = "done" /\ Toasts = <<>>) =>
       /\ Deleted = dashboardsToDelete
       /\ Reports = <<Len(dashboardsToDelete)>>
       /\ \A r \in Positions(delLog, "reportPerformanceMetricEvent") :
            \A d \in Positions(delLog, "deleted") \cup Positions(delLog, "delete") :
              d < r

\* A batch of three has been deleted and its one event reports a total of 3.
C24_Witness ==
  /\ delPc = "done"
  /\ Len(Deleted) = 3
  /\ Deleted = dashboardsToDelete
  /\ Reports = <<3>>
  /\ Toasts = <<>>

\* C25: whenever deleteItems has completed, with every delete done or with a
\* failure caught, unsavedDashboardIds is the backup service's current list;
\* after a failed batch it holds none of the ids deleted before the failure.
C25_UnsavedIdsResetOnCompletion ==
  delPc = "done" =>
    /\ unsavedDashboardIds = getDashboardIdsWithUnsavedChanges(backupState)
    /\ delLog[Len(delLog)] = Effect("setUnsavedDashboardIds", Cardinality(backupState))
    /\ \A k \in 1..Len(Deleted) : Deleted[k] \notin unsavedDashboardIds

\* A failed batch has completed: the id deleted before the failure is no
\* longer listed, the failed id still is.
C25_Witness ==
  /\ delPc = "done"
  /\ Len(Toasts) = 1
  /\ Len(Deleted) = 1
  /\ Deleted[1] \notin unsavedDashboardIds
  /\ Toasts[1] \in unsavedDashboardIds
  /\ ArgsOf(delLog, "setUnsavedDashboardIds") = <<Cardinality(backupState)>>

(***************************************************************************)
(* The listing adapters: findDashboardListingItems (find_items.ts) and     *)
(* findVisualizationsForDashboard with the findItems of get_table_list.tsx *)
(***************************************************************************)
\* The largest value of the listing limit setting, and so the longest page.
MaxLimit == 2
\* The most find calls in flight at once.
MaxInFlight == 2

SearchTerms == {"", " sales "}

\* options?: the claims are about calls without filters, where options is
\* undefined and the adapters fall back to the empty object.
EmptyOptions == [references |-> None, referencesToExclude |-> None]
FindOptions == {None}

\* Raw records of the visualizations backend (VisualizationListItem): type,
\* readOnly, error and editor are optional.
RawVis(id, title, type, soType, readOnly, error, managed, editor) ==
  [id |-> id, title |-> title, description |-> None, type |-> type,
   savedObjectType |-> soType, readOnly |-> readOnly, error |-> error,
   managed |-> managed, editor |-> editor]

\* item.editor: undefined, {onEdit}, {editUrl, editApp?}, or an object that
\* carries both the callback and the route.
NoEditor == None
Editors ==
  { NoEditor,
    Some([onEdit |-> TRUE, editUrl |-> None, editApp |-> None]),
    Some([onEdit |-> FALSE, editUrl |-> Some("/map/1"), editApp |-> Some("maps")]),
    Some([onEdit |-> FALSE, editUrl |-> Some("/legacy/1"), editApp |-> None]),
    Some([onEdit |-> TRUE, editUrl |-> Some("/map/1"), editApp |-> Some("maps")]) }

VisCatalog ==
  { [RawVis("v1", "Report A", Some("lens"), "lens", None, None, FALSE, NoEditor)
       EXCEPT !.description = Some("Sales by region")],
    RawVis("v2", "Report B", None, "map", Some(TRUE), None, FALSE, NoEditor),
    RawVis("v3", "Report C", Some("area"), "visualization", Some(FALSE),
           Some("not supported"), TRUE, NoEditor) }

\* Raw records of the dashboard backend: {id, data, meta}.
RawDashboard(id, title, tags, timeRange, managed) ==
  [id |-> id,
   data |-> [title |-> title, description |-> None, tags |-> tags,
             time_range |-> timeRange],
   meta |-> [managed |-> managed]]

DashboardCatalog ==
  { RawDashboard("d1", "Report A", Some(<<"t1", "t2">>), None, FALSE),
    RawDashboard("d2", "Report B", None, Some("now-15m"), TRUE),
    RawDashboard("d3", "Report C", Some(<<>>), None, FALSE) }

Injective(s) == \A i, j \in 1..Len(s) : s[i] = s[j] => i = j

\* The pages a backend may return: distinct records of its catalog.
VisPages == {x \in SeqsUpTo(VisCatalog, MaxLimit) : Injective(x)}
DashboardPages == {x \in SeqsUpTo(DashboardCatalog, MaxLimit) : Injective(x)}

\* What a backend may answer to a request for at most limit hits: a page, and
\* a total that counts the page or one match more.
BackendResponses(pages, limit) ==
  UNION { { [total |-> t, hits |-> h] : t \in Len(h)..(Len(h) + 1) } :
          h \in {x \in pages : Len(x) <= limit} }

MapSeq(s, F(_)) == [i \in 1..Len(s) |-> F(s[i])]

\* getReferenceIds, find_items.ts line 21
getReferenceIds(refs) ==
  IF refs = None THEN None ELSE Some(MapSeq(TheValue(refs), LAMBDA r : r.id))

\* a ?? b
OrElse(a, b) == IF a = None THEN b ELSE TheValue(a)

\* A JavaScript truth test of an optional string.
Truthy(o) == o # None /\ TheValue(o) # ""

\* find_items.ts lines 27-38 with per_page taken from another setting
\* ('savedObjects:perPage', which the hook reads next to the listing limit).
DashboardSearchArgsPerPage(searchTerm, options, limit) ==
  [search |-> searchTerm, per_page |-> limit + 1,
   tags |-> [included |-> <<>>, excluded |-> <<>>]]

\* find_items.ts lines 27-38: the argument of findService.search.
DashboardSearchArgs(searchTerm, options, limit) ==
  LET opts == OrElse(options, EmptyOptions)
  IN  [search |-> searchTerm, per_page |-> limit,
       tags |-> [included |-> OrElse(getReferenceIds(opts.references), <<>>),
                 excluded |-> OrElse(getReferenceIds(opts.referencesToExclude), <<>>)]]

\* get_table_list.tsx lines 347-355: the arguments of findListItems.
VisFindArgs(searchTerm, options, limit) ==
  LET opts == OrElse(options, EmptyOptions)
  IN  [searchTerm |-> searchTerm, limit |-> limit,
       references |-> opts.references,
       referencesToExclude |-> opts.referencesToExclude]

\* tagApi.ui.tagIdToReference
tagIdToReference(tagId) == [type |-> "tag", id |-> tagId, name |-> "tag-ref"]

\* The hit with references built from the tag ids whether or not the tagging
\* adapter is there.
DashboardHitAlwaysTagged(d, tagApi) ==
  [type |-> "dashboard",
   id |-> d.id,
   references |-> IF d.data.tags # None
                  THEN MapSeq(TheValue(d.data.tags), tagIdToReference)
                  ELSE <<>>,
   managed |-> d.meta.managed,
   attributes |-> [title |-> d.data.title,
                   description |-> d.data.description,
                   timeRestore |-> d.data.time_range # None]]

\* find_items.ts lines 49-63: one hit of the dashboard listing.
DashboardHit(d, tagApi) ==
  [type |-> "dashboard",
   id |-> d.id,
   references |-> IF tagApi /\ d.data.tags # None
                  THEN MapSeq(TheValue(d.data.tags), tagIdToReference)
                  ELSE <<>>,
   managed |-> d.meta.managed,
   attributes |-> [title |-> d.data.title,
                   description |-> d.data.description,
                   timeRestore |-> d.data.time_range # None]]

\* The dashboard adapter without its telemetry call.
findDashboardListingItemsSilent(response, tagApi) ==
  [total |-> response.total,
   hits |-> MapSeq(response.hits, LAMBDA d : DashboardHit(d, tagApi)),
   effects |-> <<>>]

\* The dashboard adapter with the total recomputed from the page.
findDashboardListingItemsPageTotal(response, tagApi) ==
  [total |-> Len(response.hits),
   hits |-> MapSeq(response.hits, LAMBDA d : DashboardHit(d, tagApi)),
   effects |-> <<"reportPerformanceMetricEvent">>]

\* find_items.ts lines 40-64: what findDashboardListingItems does and returns
\* once findService.search has resolved; effects are the calls it makes on
\* the analytics service between the await and the return statement.
findDashboardListingItems(response, tagApi) ==
  [total |-> response.total,
   hits |-> MapSeq(response.hits, LAMBDA d : DashboardHit(d, tagApi)),
   effects |-> <<"reportPerformanceMetricEvent">>]

\* The mapping with the saved-object type taken for every hit.
VisHitSavedObjectType(vis) ==
  [id |-> vis.id, title |-> vis.title, description |-> vis.description,
   savedObjectType |-> vis.savedObjectType, readOnly |-> vis.readOnly,
   error |-> vis.error, managed |-> vis.managed, editor |-> vis.editor,
   type |-> vis.savedObjectType,
   attributes |-> [id |-> vis.id, title |-> vis.title,
                   description |-> vis.description,
                   readOnly |-> OrElse(vis.readOnly, FALSE),
                   error |-> vis.error]]

\* get_table_list.tsx lines 357-370: one hit of the visualizations listing:
\* the spread of the raw hit, type || savedObjectType, and the attributes.
VisHit(vis) ==
  [id |-> vis.id, title |-> vis.title, description |-> vis.description,
   savedObjectType |-> vis.savedObjectType, readOnly |-> vis.readOnly,
   error |-> vis.error, managed |-> vis.managed, editor |-> vis.editor,
   type |-> IF Truthy(vis.type) THEN TheValue(vis.type) ELSE vis.savedObjectType,
   attributes |-> [id |-> vis.id, title |-> vis.title,
                   description |-> vis.description,
                   readOnly |-> OrElse(vis.readOnly, FALSE),
                   error |-> vis.error]]

\* get_table_list.tsx lines 357-376: what findVisualizationsForDashboard
\* returns once findListItems has resolved; it makes no call on the analytics
\* service.
findVisualizationsForDashboard(response) ==
  [total |-> response.total,
   hits |-> MapSeq(response.hits, VisHit),
   effects |-> <<>>]

\* findItems with the result applied only when no later search has resolved
\* in the meantime (sequence-number gating).
findItemsStoreGated(current, result, overtaken) ==
  IF overtaken THEN current ELSE Some(result.hits)

\* get_table_list.tsx line 245: visualizedUserContent.current = result.hits
findItemsStore(current, result, overtaken) == Some(result.hits)

FindArgs(searchTerm, options) ==
  IF listing = "dashboard"
  THEN DashboardSearchArgs(searchTerm, options, listingLimit)
  ELSE VisFindArgs(searchTerm, options, listingLimit)

\* The page size and the term a backend request carries.
RequestedLimit(req) == IF listing = "dashboard" THEN req.per_page ELSE req.limit
RequestedTerm(req) == IF listing = "dashboard" THEN req.search ELSE req.searchTerm

\* The table calls findItems(searchTerm, options): the adapter reads the limit
\* and calls the backend; the call is then awaiting the answer.
FindItemsCall ==
  /\ Len(pendingFinds) < MaxInFlight
  /\ \E searchTerm \in SearchTerms, options \in FindOptions :
       pendingFinds' = Append(pendingFinds,
                              [searchTerm |-> searchTerm,
                               options |-> options,
                               request |-> FindArgs(searchTerm, options),
                               overtaken |-> FALSE])
  /\ UNCHANGED <<listing, listingLimit, taggingAvailable,
                 visualizedUserContent, lastFind, lastOutcome, lastFailure,
                 notFindVars>>

RemoveAt(s, i) == SubSeq(s, 1, i - 1) \o SubSeq(s, i + 1, Len(s))

\* The backend answers the i-th pending call: the adapter maps the hits and
\* returns; the visualizations findItems stores the hits in its ref.
FindResolved ==
  \E i \in 1..Len(pendingFinds) :
    \E response \in BackendResponses(
                      IF listing = "dashboard" THEN DashboardPages ELSE VisPages,
                      RequestedLimit(pendingFinds[i].request)) :
      LET call == pendingFinds[i]
          result == IF listing = "dashboard"
                    THEN findDashboardListingItems(response, taggingAvailable)
                    ELSE findVisualizationsForDashboard(response)
          older == [j \in 1..Len(pendingFinds) |->
                      IF j < i THEN [pendingFinds[j] EXCEPT !.overtaken = TRUE]
                      ELSE pendingFinds[j]]
      IN  /\ pendingFinds' = RemoveAt(older, i)
          /\ visualizedUserContent' =
               IF listing = "dashboard" THEN visualizedUserContent
               ELSE findItemsStore(visualizedUserContent, result, call.overtaken)
          /\ lastFind' = Some([overtaken |-> call.overtaken,
                               response |-> response,
                               result |-> result])
          /\ lastOutcome' = "resolved"
          /\ lastFailure' = None
          /\ UNCHANGED <<listing, listingLimit, taggingAvailable, notFindVars>>

\* The errors a backend search may fail with.
BackendErrors == {"Internal Server Error", "Request timed out"}

\* An adapter that catches the backend error, raises a toast and answers with
\* an empty result.
findRejectionCaught(error, cache) ==
  [backend |-> error, promise |-> "resolved", rejectedWith |-> None,
   toasts |-> <<error>>, effects |-> <<>>, cache |-> cache]

\* find_items.ts line 31 and get_table_list.tsx lines 243 and 350: the awaited
\* backend call rejects outside any try block, so the adapter's promise and
\* that of findItems reject with the same error; no statement after the
\* await runs: no telemetry event is reported (find_items.ts line 40) and the
\* ref of findItems (cache) stays as it was.
findRejection(error, cache) ==
  [backend |-> error, promise |-> "rejected", rejectedWith |-> Some(error),
   toasts |-> <<>>, effects |-> <<>>, cache |-> cache]

\* The backend call of the i-th pending call fails.
FindRejected ==
  \E i \in 1..Len(pendingFinds), error \in BackendErrors :
    LET failure == findRejection(error, visualizedUserContent)
    IN  /\ pendingFinds' = RemoveAt(pendingFinds, i)
        /\ lastOutcome' = failure.promise
        /\ lastFailure' = Some([backend |-> failure.backend,
                                rejectedWith |-> failure.rejectedWith,
                                toasts |-> failure.toasts,
                                effects |-> failure.effects])
        /\ visualizedUserContent' = failure.cache
        /\ UNCHANGED <<listing, listingLimit, taggingAvailable, lastFind,
                       notFindVars>>

InitFind ==
  /\ listing \in {"dashboard", "visualization"}
  /\ listingLimit \in 1..MaxLimit
  /\ taggingAvailable \in BOOLEAN
  /\ pendingFinds = <<>>
  /\ visualizedUserContent = None
  /\ lastFind = None
  /\ lastOutcome = "none"
  /\ lastFailure = None

IdleFind ==
  /\ listing = "dashboard"
  /\ listingLimit = 1
  /\ taggingAvailable = FALSE
  /\ pendingFinds = <<>>
  /\ visualizedUserContent = None
  /\ lastFind = None
  /\ lastOutcome = "none"
  /\ lastFailure = None

NextFind ==
  \/ FindItemsCall
  \/ FindResolved
  \/ FindRejected


\* C2: overlapping visualization searches are not cancelled and each applies
\* its result when it resolves, so the cached result set holds the hits of the
\* search that resolved last, also when that search was issued first.
C2_LastResolvedWins ==
  (listing = "visualization" /\ lastFind # None) =>
     visualizedUserContent =
       Some(MapSeq(TheValue(lastFind).response.hits, VisHit))

\* Two searches overlapped and the one issued first resolved last, with hits of
\* its own.
C2_Witness ==
  /\ listing = "visualization"
  /\ lastFind # None
  /\ TheValue(lastFind).overtaken
  /\ pendingFinds = <<>>
  /\ Len(TheValue(lastFind).response.hits) = 2
  /\ visualizedUserContent = Some(TheValue(lastFind).result.hits)

\* C3: for every search term, the empty one included, and empty filter
\* options, the adapter asks the backend for exactly the value of the
\* 'savedObjects:listingLimit' setting and passes the term on unmodified.
C3_LimitAndTermPassedThrough ==
  \A i \in 1..Len(pendingFinds) :
    /\ RequestedLimit(pendingFinds[i].request) = listingLimit
    /\ RequestedTerm(pendingFinds[i].request) = pendingFinds[i].searchTerm

\* Two searches are in flight, the first for a term with surrounding blanks
\* and the second for the empty term, under the largest listing limit.
C3_Witness ==
  /\ Len(pendingFinds) = 2
  /\ pendingFinds[1].searchTerm = " sales "
  /\ pendingFinds[2].searchTerm = ""
  /\ pendingFinds[1].options = None
  /\ pendingFinds[2].options = None
  /\ listingLimit = MaxLimit

\* C4: the total the adapter returns is the total the backend reported,
\* whatever the number of hits.
C4_TotalIsBackendTotal ==
  lastFind # None =>
    TheValue(lastFind).result.total = TheValue(lastFind).response.total

\* A find resolved whose backend total differs from the number of hits.
C4_Witness ==
  /\ lastFind # None
  /\ TheValue(lastFind).response.total > Len(TheValue(lastFind).response.hits)
  /\ Len(TheValue(lastFind).result.hits) = 1
  /\ TheValue(lastFind).result.total = 2

\* C17: when the backend search fails, find does not catch: its promise
\* rejects with the backend's error, the adapter raises no notification, and
\* the step leaves the cached result set of the visualizations listing as it
\* was.
C17_FindErrorPropagates ==
  /\ [](lastFailure # None =>
          /\ lastOutcome = "rejected"
          /\ TheValue(lastFailure).rejectedWith = Some(TheValue(lastFailure).backend)
          /\ TheValue(lastFailure).toasts = <<>>)
  /\ [][ (lastFailure' # None /\ Len(pendingFinds') < Len(pendingFinds)) =>
           visualizedUserContent' = visualizedUserContent ]_vars

\* A visualization search resolved with hits and a later one failed: the
\* failure was passed on and the cache still holds the hits of the first.
C17_Witness ==
  /\ listing = "visualization"
  /\ lastFailure # None
  /\ lastFind # None
  /\ pendingFinds = <<>>
  /\ TheValue(lastFind).result.hits # <<>>
  /\ visualizedUserContent = Some(TheValue(lastFind).result.hits)

\* C18 as stated: every find of either listing whose backend call has
\* completed reports a performance-timing event before it returns.
C18_EveryFindEmitsTelemetry ==
  lastFind # None =>
    TheValue(lastFind).result.effects = <<"reportPerformanceMetricEvent">>

\* C18, amended: a dashboard find reports exactly one performance-timing
\* event, after its backend call has resolved and before it returns; a
\* visualization find reports none, and neither does a find whose backend
\* call failed.
C18_DashboardFindEmitsTelemetry ==
  /\ lastFind # None =>
       TheValue(lastFind).result.effects =
         (IF listing = "dashboard" THEN <<"reportPerformanceMetricEvent">>
          ELSE <<>>)
  /\ lastFailure # None => TheValue(lastFailure).effects = <<>>

\* A dashboard search resolved with two hits and reported its event, and the
\* search that settled after it failed and reported nothing.
C18_Witness ==
  /\ listing = "dashboard"
  /\ lastFind # None
  /\ Len(TheValue(lastFind).result.hits) = 2
  /\ TheValue(lastFind).result.effects = <<"reportPerformanceMetricEvent">>
  /\ lastFailure # None
  /\ TheValue(lastFailure).effects = <<>>

\* C19: findVisualizationsForDashboard returns as many hits as the backend
\* did, in the same order; each has the raw hit's type when it has one and
\* its savedObjectType otherwise, attributes.readOnly equal to the raw
\* readOnly when that is set and false otherwise, and the raw id, title,
\* description and error as attributes.
C19_VisHitMapping ==
  (listing = "visualization" /\ lastFind # None) =>
    LET raw == TheValue(lastFind).response.hits
        hits == TheValue(lastFind).result.hits
    IN  /\ Len(hits) = Len(raw)
        /\ \A i \in 1..Len(raw) :
             /\ hits[i].type = (IF raw[i].type # None THEN TheValue(raw[i].type)
                                ELSE raw[i].savedObjectType)
             /\ hits[i].attributes.readOnly = (raw[i].readOnly = Some(TRUE))
             /\ hits[i].attributes.id = raw[i].id
             /\ hits[i].attributes.title = raw[i].title
             /\ hits[i].attributes.description = raw[i].description
             /\ hits[i].attributes.error = raw[i].error

\* A visualization search returned a hit without a type after a typed hit
\* whose readOnly is unset.
C19_Witness ==
  /\ listing = "visualization"
  /\ lastFind # None
  /\ Len(TheValue(lastFind).response.hits) = 2
  /\ TheValue(lastFind).response.hits[1].readOnly = None
  /\ TheValue(lastFind).response.hits[1].type # None
  /\ TheValue(lastFind).response.hits[2].type = None
  /\ TheValue(lastFind).result.hits[2].type = "map"
  /\ TheValue(lastFind).result.hits[1].attributes.readOnly = FALSE

\* C20: each hit of findDashboardListingItems has as references the record's
\* tag ids passed, in order, through tagIdToReference when the tagging adapter
\* is available and the record has tags, and the empty sequence otherwise.
C20_DashboardReferences ==
  (listing = "dashboard" /\ lastFind # None) =>
    LET raw == TheValue(lastFind).response.hits
        hits == TheValue(lastFind).result.hits
    IN  /\ Len(hits) = Len(raw)
        /\ \A i \in 1..Len(raw) :
             LET tags == raw[i].data.tags
                 refs == hits[i].references
             IN  IF taggingAvailable /\ tags # None
                 THEN /\ Len(refs) = Len(TheValue(tags))
                      /\ \A k \in 1..Len(refs) :
                           refs[k] = tagIdToReference(TheValue(tags)[k])
                 ELSE refs = <<>>

\* With the tagging adapter, a search returned a dashboard with two tags and
\* one without tags: two references in tag order, and none.
C20_Witness ==
  /\ listing = "dashboard"
  /\ taggingAvailable
  /\ lastFind # None
  /\ Len(TheValue(lastFind).response.hits) = 2
  /\ TheValue(lastFind).response.hits[1].data.tags = Some(<<"t1", "t2">>)
  /\ TheValue(lastFind).response.hits[2].data.tags = None
  /\ Len(TheValue(lastFind).result.hits[1].references) = 2
  /\ TheValue(lastFind).result.hits[1].references[1].id = "t1"
  /\ TheValue(lastFind).result.hits[2].references = <<>>

(***************************************************************************)
(* The table props: rowItemActions of both listings, and getOnClickTitle   *)
(* and editItem of the visualizations listing.                             *)
(***************************************************************************)
\* The items a visualizations row may show: every combination of the flags.
VisItems ==
  { VisHit(RawVis("v1", "Report A", Some("lens"), "lens", ro, err, mg, ed)) :
      ro \in {None, Some(TRUE), Some(FALSE)},
      err \in {None, Some("not supported")},
      mg \in BOOLEAN,
      ed \in Editors }

DashboardItems == { DashboardHit(d, TRUE) : d \in DashboardCatalog }

Capabilities == [save : {None, Some(TRUE), Some(FALSE)},
                 delete : {None, Some(TRUE), Some(FALSE)}]

\* get_table_list.tsx line 170
canSave(caps) == OrElse(caps.save, FALSE)

\* get_table_list.tsx lines 171-172 with the save capability alone.
canDeleteSaveOnly(caps) == canSave(caps)

\* get_table_list.tsx lines 171-172: delete ?? save ?? false
canDelete(caps) ==
  IF caps.delete # None THEN TheValue(caps.delete)
  ELSE IF caps.save # None THEN TheValue(caps.save)
  ELSE FALSE

\* get_table_list.tsx lines 195 and 285-296: the props that depend on the
\* capabilities; findItems, editItem and rowItemActions are always passed.
VisTableProps(caps) ==
  [variant |-> "visualization",
   deleteItems |-> IF canDelete(caps) THEN Some("deleteItemsHandler") ELSE None,
   editItem |-> Some("editItem"),
   contentEditor |-> [isReadonly |-> ~canSave(caps)]]

\* use_dashboard_listing_table.tsx lines 207-216
DashboardTableProps(writeControls) ==
  [variant |-> "dashboard",
   deleteItems |-> IF ~writeControls THEN None ELSE Some("deleteItems"),
   editItem |-> IF ~writeControls THEN None ELSE Some("editItem"),
   contentEditor |-> [isReadonly |-> ~writeControls]]

\* use_dashboard_listing_table.tsx lines 181-197
DashboardRowItemActions(item, writeControls) ==
  IF ~writeControls \/ item.managed
  THEN Some([edit |-> [enabled |-> FALSE,
                       reason |-> IF item.managed
                                  THEN Some("managementItemDisabledEdit")
                                  ELSE None]])
  ELSE None

\* rowItemActions without the managed test.
VisRowItemActionsUnmanaged(item, caps) ==
  IF ~canSave(caps) \/ item.attributes.readOnly
  THEN Some([edit |-> [enabled |-> FALSE, reason |-> None]])
  ELSE None

\* rowItemActions with the read-only message chosen before the managed one.
VisRowItemActionsReadOnlyFirst(item, caps) ==
  LET isReadOnlyVisualization == item.attributes.readOnly
  IN  IF ~canSave(caps) \/ item.managed \/ isReadOnlyVisualization
      THEN Some([edit |-> [enabled |-> FALSE,
                           reason |-> IF isReadOnlyVisualization
                                      THEN Some("readOnlyVisualizationMessage")
                                      ELSE IF item.managed
                                      THEN Some("managedVisualizationMessage")
                                      ELSE None]])
      ELSE None

\* get_table_list.tsx lines 208-236
VisRowItemActions(item, caps) ==
  LET isReadOnlyVisualization == item.attributes.readOnly
  IN  IF ~canSave(caps) \/ item.managed \/ isReadOnlyVisualization
      THEN Some([edit |-> [enabled |-> FALSE,
                           reason |-> IF item.managed
                                      THEN Some("managedVisualizationMessage")
                                      ELSE IF isReadOnlyVisualization
                                      THEN Some("readOnlyVisualizationMessage")
                                      ELSE None]])
      ELSE None

\* getOnClickTitle that hands out a handler for every item.
getOnClickTitleAlways(item) == Some(item)

\* get_table_list.tsx lines 198-205: undefined, or the handler
\* () => editItem(item), which is known by the item it closes over.
getOnClickTitle(item) ==
  IF item.attributes.readOnly \/ Truthy(item.error) THEN None ELSE Some(item)

Call(name, args) == [call |-> name, args |-> args]

\* editItem with the external-app route tested before the custom callback.
editItemRouteFirst(item) ==
  LET id == item.attributes.id
      editor == item.editor
  IN  IF editor # None /\ TheValue(editor).editUrl # None
         /\ Truthy(TheValue(editor).editApp)
      THEN [item |-> item,
            calls |-> <<Call("navigateToApp",
                             <<TheValue(TheValue(editor).editApp),
                               TheValue(TheValue(editor).editUrl)>>)>>]
      ELSE IF editor # None /\ TheValue(editor).onEdit
      THEN [item |-> item, calls |-> <<Call("editor.onEdit", <<id>>)>>]
      ELSE [item |-> item,
            calls |-> <<Call("navigateToVisualization", <<"stateTransfer", id>>)>>]

\* get_table_list.tsx lines 149-167: the calls editItem(item) makes, in order.
\* embeddable.getStateTransfer() is the handle "stateTransfer".
editItem(item) ==
  LET id == item.attributes.id
      editor == item.editor
  IN  IF editor # None /\ TheValue(editor).onEdit
      THEN [item |-> item, calls |-> <<Call("editor.onEdit", <<id>>)>>]
      ELSE IF editor # None /\ TheValue(editor).editUrl # None
              /\ Truthy(TheValue(editor).editApp)
      THEN [item |-> item,
            calls |-> <<Call("navigateToApp",
                             <<TheValue(TheValue(editor).editApp),
                               TheValue(TheValue(editor).editUrl)>>)>>]
      ELSE [item |-> item,
            calls |-> <<Call("navigateToVisualization", <<"stateTransfer", id>>)>>]

\* A listing tab is mounted: its component renders and hands the table its
\* props, computed from the capabilities.
RenderTable ==
  /\ \E variant \in {"dashboard", "visualization"} :
       tableProps' = Some(IF variant = "dashboard"
                          THEN DashboardTableProps(showWriteControls)
                          ELSE VisTableProps(visualizeCapabilities))
  /\ row' = None
  /\ click' = None
  /\ UNCHANGED <<showWriteControls, visualizeCapabilities, notPropsVars>>

\* The mounted table renders a row: it asks for the row's actions and, in the
\* visualizations listing, for the handler of a click on the title.
RenderRow ==
  /\ tableProps # None
  /\ LET variant == TheValue(tableProps).variant
     IN  \E item \in (IF variant = "dashboard" THEN DashboardItems ELSE VisItems) :
           row' = Some([variant |-> variant,
                        item |-> item,
                        actions |-> IF variant = "dashboard"
                                    THEN DashboardRowItemActions(item, showWriteControls)
                                    ELSE VisRowItemActions(item, visualizeCapabilities),
                        onClickTitle |-> IF variant = "dashboard" THEN None
                                         ELSE getOnClickTitle(item)])
  /\ UNCHANGED <<showWriteControls, visualizeCapabilities, tableProps, click,
                 notPropsVars>>

\* The user clicks the title of the rendered row: its handler runs.
ClickTitle ==
  /\ row # None
  /\ TheValue(row).onClickTitle # None
  /\ click' = Some([handlerOf |-> TheValue(row).item,
                    edit |-> editItem(TheValue(TheValue(row).onClickTitle))])
  /\ UNCHANGED <<showWriteControls, visualizeCapabilities, tableProps, row,
                 notPropsVars>>

\* The user picks the edit action of the rendered visualizations row, which the
\* table offers when rowItemActions put no restriction on it.
EditAction ==
  /\ row # None
  /\ TheValue(row).variant = "visualization"
  /\ TheValue(row).actions = None
  /\ click' = Some([handlerOf |-> TheValue(row).item,
                    edit |-> editItem(TheValue(row).item)])
  /\ UNCHANGED <<showWriteControls, visualizeCapabilities, tableProps, row,
                 notPropsVars>>

InitProps ==
  /\ showWriteControls \in BOOLEAN
  /\ visualizeCapabilities \in Capabilities
  /\ tableProps = None
  /\ row = None
  /\ click = None

IdleProps ==
  /\ showWriteControls = FALSE
  /\ visualizeCapabilities = [save |-> None, delete |-> None]
  /\ tableProps = None
  /\ row = None
  /\ click = None

NextProps ==
  \/ RenderTable
  \/ RenderRow
  \/ ClickTitle
  \/ EditAction

\* C5: a managed item always gets edit.enabled = false from rowItemActions,
\* with or without the save capability and whatever its other flags.
C5_ManagedNeverEditable ==
  (row # None /\ TheValue(row).item.managed) =>
     /\ TheValue(row).actions # None
     /\ TheValue(TheValue(row).actions).edit.enabled = FALSE

\* A managed visualization that is not read-only is rendered for a caller
\* who may save.
C5_Witness ==
  /\ row # None
  /\ TheValue(row).variant = "visualization"
  /\ TheValue(row).item.managed
  /\ ~TheValue(row).item.attributes.readOnly
  /\ canSave(visualizeCapabilities)
  /\ TheValue(TheValue(row).actions).edit.enabled = FALSE

\* C6: a read-only visualization has no click-title handler; a normal one has
\* a handler, and invoking it calls editItem with that same item.
C6_ClickTitle ==
  /\ (row # None /\ TheValue(row).variant = "visualization") =>
       LET item == TheValue(row).item
       IN  /\ item.attributes.readOnly => TheValue(row).onClickTitle = None
           /\ (~item.attributes.readOnly /\ item.error = None) =>
                TheValue(row).onClickTitle # None
  /\ click # None => TheValue(click).edit.item = TheValue(click).handlerOf

\* The title of a normal visualization was clicked and editItem ran for it.
C6_Witness ==
  /\ click # None
  /\ row # None
  /\ TheValue(click).handlerOf = TheValue(row).item
  /\ ~TheValue(row).item.attributes.readOnly
  /\ TheValue(click).edit.calls = <<Call("navigateToVisualization",
                                         <<"stateTransfer", "v1">>)>>

\* C13: the table props carry a deleteItems callback exactly when the
\* capabilities permit deletion: for visualizations the delete capability,
\* the save capability when delete is unspecified, and not when both are
\* unspecified; for dashboards showWriteControls.
C13_DeleteItemsOnlyWhenPermitted ==
  tableProps # None =>
    LET props == TheValue(tableProps)
        caps == visualizeCapabilities
    IN  /\ props.variant = "visualization" =>
             (props.deleteItems # None <=>
                \/ caps.delete = Some(TRUE)
                \/ caps.delete = None /\ caps.save = Some(TRUE))
        /\ props.variant = "dashboard" =>
             (props.deleteItems # None <=> showWriteControls)

\* The visualizations table is mounted for an actor who may save but whose
\* delete capability is switched off: no deleteItems.
C13_Witness ==
  /\ tableProps # None
  /\ TheValue(tableProps).variant = "visualization"
  /\ visualizeCapabilities = [save |-> Some(TRUE), delete |-> Some(FALSE)]
  /\ TheValue(tableProps).deleteItems = None

\* The three grounds for a restriction, read off the rendered row.  Only
\* visualizations have a read-only flag.
RowManaged == TheValue(row).item.managed
RowReadOnly ==
  /\ TheValue(row).variant = "visualization"
  /\ TheValue(row).item.attributes.readOnly
RowLacksSave ==
  IF TheValue(row).variant = "dashboard"
  THEN ~showWriteControls
  ELSE visualizeCapabilities.save # Some(TRUE)

\* C15 as stated: rowItemActions disables the edit action and gives a reason
\* whenever the item is managed or read-only or the actor lacks the save
\* capability, and returns undefined otherwise.
C15_ReasonAlwaysGiven ==
  row # None =>
    IF RowManaged \/ RowReadOnly \/ RowLacksSave
    THEN /\ TheValue(row).actions # None
         /\ TheValue(TheValue(row).actions).edit.enabled = FALSE
         /\ TheValue(TheValue(row).actions).edit.reason # None
    ELSE TheValue(row).actions = None

\* C15, amended: rowItemActions disables the edit action whenever the item is
\* managed or read-only or the actor lacks the save capability, and returns
\* undefined otherwise; the reason is the managed message for a managed item,
\* else the read-only message for a read-only visualization, and undefined
\* when the missing save capability is the only ground.
C15_RowItemActions ==
  row # None =>
    IF RowManaged \/ RowReadOnly \/ RowLacksSave
    THEN /\ TheValue(row).actions # None
         /\ TheValue(TheValue(row).actions).edit.enabled = FALSE
         /\ TheValue(TheValue(row).actions).edit.reason =
              IF RowManaged
              THEN Some(IF TheValue(row).variant = "dashboard"
                        THEN "managementItemDisabledEdit"
                        ELSE "managedVisualizationMessage")
              ELSE IF RowReadOnly THEN Some("readOnlyVisualizationMessage")
              ELSE None
    ELSE TheValue(row).actions = None

\* A visualization that is neither managed nor read-only is rendered for an
\* actor without the save capability: edit is disabled, without a reason.
C15_Witness ==
  /\ row # None
  /\ TheValue(row).variant = "visualization"
  /\ ~RowManaged
  /\ ~RowReadOnly
  /\ visualizeCapabilities.save = Some(FALSE)
  /\ TheValue(row).actions = Some([edit |-> [enabled |-> FALSE, reason |-> None]])

HasEditCallback(item) == item.editor # None /\ TheValue(item.editor).onEdit
HasEditRoute(item) ==
  /\ item.editor # None
  /\ TheValue(item.editor).editUrl # None
  /\ TheValue(item.editor).editApp \notin {None, Some("")}

\* C12: a call of the visualization editItem makes exactly one call: the
\* item's custom edit callback with the item id when the item carries one;
\* otherwise navigateToApp to the item's edit app and edit url when it carries
\* both; otherwise the default editor with a state-transfer handle and the id.
C12_EditItemPrecedence ==
  click # None =>
    LET edit == TheValue(click).edit
        item == edit.item
        id == item.attributes.id
    IN  /\ Len(edit.calls) = 1
        /\ HasEditCallback(item) => edit.calls[1] = Call("editor.onEdit", <<id>>)
        /\ (~HasEditCallback(item) /\ HasEditRoute(item)) =>
             edit.calls[1] = Call("navigateToApp",
                                  <<TheValue(TheValue(item.editor).editApp),
                                    TheValue(TheValue(item.editor).editUrl)>>)
        /\ (~HasEditCallback(item) /\ ~HasEditRoute(item)) =>
             edit.calls[1] = Call("navigateToVisualization", <<"stateTransfer", id>>)

\* editItem ran for an item that carries both a custom callback and an
\* external-app route, and called the callback.
C12_Witness ==
  /\ click # None
  /\ HasEditCallback(TheValue(click).edit.item)
  /\ HasEditRoute(TheValue(click).edit.item)
  /\ TheValue(click).edit.calls[1].call = "editor.onEdit"

(***************************************************************************)
(* The content editor's title validator of both listings.                  *)
(***************************************************************************)
CandidateTitles == {"Report A", "Report B", "Quarterly numbers"}

\* The ids the validator may be called with: listed ones, and none ("").
ValidatorIds(catalog) == {x.id : x \in catalog} \cup {""}

\* The backend's duplicate-title rule: another item already has the title.
IsDuplicateTitle(titled, title, id) ==
  \E other \in titled : other.id # id /\ other.title = title

VisTitles == {[id |-> v.id, title |-> v.title] : v \in VisCatalog}
DashboardTitles == {[id |-> d.id, title |-> d.data.title] : d \in DashboardCatalog}

\* How a duplicate-title check may end: with the rule's verdict, or with a
\* failure of the backend call.
CheckOutcomes(titled, title, id) ==
  {IF IsDuplicateTitle(titled, title, id) THEN "duplicate" ELSE "unique", "failed"}

\* The visualizations validator with an empty catch block.
VisTitleValidatorSwallow(value, content, outcome) ==
  [verdict |-> IF content = None THEN "notChecked" ELSE outcome,
   message |-> None]

\* get_table_list.tsx lines 116-141: content is the cached item of the id
\* (None: no id, or not in the cache); checkForDuplicateTitle rejects on a
\* duplicate and on a failure, and the catch turns either into the warning.
VisTitleValidator(value, content, outcome) ==
  IF content = None
  THEN [verdict |-> "notChecked", message |-> None]
  ELSE [verdict |-> outcome,
        message |-> IF outcome \in {"duplicate", "failed"}
                    THEN Some([text |-> "visualizations.listing.duplicateTitleWarning",
                               value |-> value])
                    ELSE None]

\* use_dashboard_listing_table.tsx lines 112-134: found tells whether findById
\* returned the dashboard (status not 'error'); checkForDuplicateDashboardTitle
\* returns false for a duplicate, and throws when its backend call fails.
DashboardTitleValidator(value, id, found, outcome) ==
  IF id = "" \/ ~found
  THEN [verdict |-> "notChecked", message |-> None]
  ELSE [verdict |-> outcome,
        message |-> CASE outcome = "duplicate" ->
                           Some([text |-> "getDuplicateTitleWarning", value |-> value])
                      [] outcome = "failed" ->
                           Some([text |-> "e.message", value |-> value])
                      [] OTHER -> None]

\* visualizedUserContent.current?.find((c) => c.id === id)
FindInCache(cache, id) ==
  IF cache = None THEN None
  ELSE LET hits == TheValue(cache)
           at == {i \in 1..Len(hits) : hits[i].id = id}
       IN  IF at = {} THEN None
           ELSE Some(hits[CHOOSE i \in at : \A j \in at : i <= j])

\* The content editor runs the title validator of the visualizations listing.
ValidateVisTitle ==
  /\ listing = "visualization"
  /\ \E value \in CandidateTitles, id \in ValidatorIds(VisCatalog) :
       LET content == IF id = "" THEN None ELSE FindInCache(visualizedUserContent, id)
       IN  \E outcome \in CheckOutcomes(VisTitles, value, id) :
             validation' = Some([value |-> value, id |-> id]
                                  @@ VisTitleValidator(value, content, outcome))
  /\ UNCHANGED <<saved, notEditorVars>>

\* The content editor runs the title validator of the dashboard listing.
ValidateDashboardTitle ==
  /\ listing = "dashboard"
  /\ \E value \in CandidateTitles, id \in ValidatorIds(DashboardCatalog),
        found \in BOOLEAN :
       \E outcome \in CheckOutcomes(DashboardTitles, value, id) :
         validation' = Some([value |-> value, id |-> id]
                              @@ DashboardTitleValidator(value, id, found, outcome))
  /\ UNCHANGED <<saved, notEditorVars>>

\* What the content editor may hand to onSave: description is optional.
SaveArgs ==
  [id : {v.id : v \in VisCatalog},
   title : CandidateTitles,
   description : {None, Some("Sales by region")},
   tags : {<<>>, <<"t1">>}]

\* onSave that reports an item missing from the cache as an error.
onContentEditorSaveThrowOnMiss(cache, args, updateResolves) ==
  LET content == FindInCache(cache, args.id)
  IN  IF content # None
      THEN [updates |-> <<[id |-> TheValue(content).attributes.id,
                           type |-> TheValue(content).type,
                           attributes |-> [title |-> args.title,
                                           description |-> OrElse(args.description, ""),
                                           tags |-> args.tags]]>>,
            promise |-> IF updateResolves THEN "resolved" ELSE "rejected"]
      ELSE [updates |-> <<>>, promise |-> "rejected"]

\* get_table_list.tsx lines 85-106: the calls of updateBasicSoAttributes that
\* onSave(args) makes, and how its promise ends; the awaited update may
\* itself fail, and nothing catches that.
onContentEditorSave(cache, args, updateResolves) ==
  LET content == FindInCache(cache, args.id)
  IN  IF content # None
      THEN [updates |-> <<[id |-> TheValue(content).attributes.id,
                           type |-> TheValue(content).type,
                           attributes |-> [title |-> args.title,
                                           description |-> OrElse(args.description, ""),
                                           tags |-> args.tags]]>>,
            promise |-> IF updateResolves THEN "resolved" ELSE "rejected"]
      ELSE [updates |-> <<>>, promise |-> "resolved"]

\* The content editor of the visualizations listing saves its form.
ContentEditorSave ==
  /\ listing = "visualization"
  /\ \E args \in SaveArgs, updateResolves \in BOOLEAN :
       saved' = Some([args |-> args]
                       @@ onContentEditorSave(visualizedUserContent, args,
                                              updateResolves))
  /\ UNCHANGED <<validation, notEditorVars>>

\* The listing as the content editor finds it: a search may have resolved.
InitEditor ==
  /\ listing \in {"dashboard", "visualization"}
  /\ listingLimit = MaxLimit
  /\ taggingAvailable = TRUE
  /\ pendingFinds = <<>>
  /\ \/ /\ lastFind = None
        /\ lastOutcome = "none"
        /\ visualizedUserContent = None
     \/ /\ listing = "visualization"
        /\ \E response \in BackendResponses(VisPages, MaxLimit) :
             LET result == findVisualizationsForDashboard(response)
             IN  /\ lastFind = Some([overtaken |-> FALSE, response |-> response,
                                     result |-> result])
                 /\ visualizedUserContent = findItemsStore(None, result, FALSE)
        /\ lastOutcome = "resolved"
  /\ lastFailure = None
  /\ validation = None
  /\ saved = None

IdleEditor ==
  /\ validation = None
  /\ saved = None

NextEditor ==
  \/ ValidateVisTitle
  \/ ValidateDashboardTitle
  \/ ContentEditorSave

\* C7: called with a candidate title and the id of a listed item, the title
\* validator returns a non-empty warning when the duplicate-title check
\* rejects the candidate, and no message when the candidate is unique.
C7_DuplicateTitleWarning ==
  validation # None =>
    LET v == TheValue(validation)
        titled == IF listing = "dashboard" THEN DashboardTitles ELSE VisTitles
    IN  /\ v.verdict = "duplicate" =>
             /\ IsDuplicateTitle(titled, v.value, v.id)
             /\ v.message # None
             /\ TheValue(v.message).value = v.value
        /\ v.verdict = "unique" =>
             /\ ~IsDuplicateTitle(titled, v.value, v.id)
             /\ v.message = None

\* The validator of the visualizations listing was run for a listed item and
\* the title of another item, and returned the warning.
C7_Witness ==
  /\ listing = "visualization"
  /\ validation # None
  /\ TheValue(validation).id = "v1"
  /\ TheValue(validation).value = "Report B"
  /\ TheValue(validation).verdict = "duplicate"
  /\ TheValue(validation).message # None

\* Whether the cached result set holds an item of the id.
InCache(id) ==
  /\ visualizedUserContent # None
  /\ \E i \in 1..Len(TheValue(visualizedUserContent)) :
       TheValue(visualizedUserContent)[i].id = id

\* C16: onSave(args) of the visualizations content editor issues exactly one
\* partial update for the item of args.id when the cached result set holds
\* it: the title, the description or the empty string when there is none,
\* and the tags.  When no search has resolved yet or the cached result set
\* does not hold the id, it issues no update and its promise resolves.
C16_OnSaveCacheLookup ==
  saved # None =>
    LET args == TheValue(saved).args
        updates == TheValue(saved).updates
    IN  IF InCache(args.id)
        THEN /\ Len(updates) = 1
             /\ updates[1].id = args.id
             /\ updates[1].attributes.title = args.title
             /\ updates[1].attributes.tags = args.tags
             /\ updates[1].attributes.description =
                  (IF args.description = None THEN ""
                   ELSE TheValue(args.description))
        ELSE /\ updates = <<>>
             /\ TheValue(saved).promise = "resolved"

\* A search has resolved with hits, the form of an item that is not among
\* them was saved, and nothing happened.
C16_Witness ==
  /\ saved # None
  /\ visualizedUserContent # None
  /\ Len(TheValue(visualizedUserContent)) = 2
  /\ ~InCache(TheValue(saved).args.id)
  /\ TheValue(saved).updates = <<>>
  /\ TheValue(saved).promise = "resolved"

(***************************************************************************)
(* getFormattedEmailOptions.  A string is a sequence of characters.        *)
(***************************************************************************)
Chars == {"a", "A", " ", ","}

\* The longest search value, and the most previous options.
MaxSearchLen == 4
MaxPrevious == 2

PreviousLabels == {<<"a">>, <<"A">>, <<" ", "a">>}

IsSpace(c) == c = " "

RECURSIVE TrimStart(_)
TrimStart(str) ==
  IF str # <<>> /\ IsSpace(Head(str)) THEN TrimStart(Tail(str)) ELSE str

RECURSIVE TrimEnd(_)
TrimEnd(str) ==
  IF str # <<>> /\ IsSpace(str[Len(str)])
  THEN TrimEnd(SubSeq(str, 1, Len(str) - 1))
  ELSE str

\* String.prototype.trim
trim(str) == TrimEnd(TrimStart(str))

RECURSIVE SplitFrom(_, _, _, _)
SplitFrom(str, sep, current, done) ==
  IF str = <<>> THEN Append(done, current)
  ELSE IF Head(str) = sep
  THEN SplitFrom(Tail(str), sep, <<>>, Append(done, current))
  ELSE SplitFrom(Tail(str), sep, Append(current, Head(str)), done)

\* String.prototype.split with a one-character separator
split(str, sep) == SplitFrom(str, sep, <<>>, <<>>)

\* Set.prototype.add on a Set kept in insertion order
SetAdd(set, x) == IF x \in Range(set) THEN set ELSE Append(set, x)

RECURSIVE SetAddAll(_, _)
SetAddAll(set, xs) ==
  IF xs = <<>> THEN set ELSE SetAddAll(SetAdd(set, Head(xs)), Tail(xs))

\* The loop body of line 82-85 without the trim.
AddEmailUntrimmed(allUniqueEmails, email) ==
  IF trim(email) # <<>> THEN SetAdd(allUniqueEmails, email) ELSE allUniqueEmails

\* email_params.tsx (plugin.ts lines 82-85): the forEach body.
AddEmail(allUniqueEmails, email) ==
  LET trimmedEmail == trim(email)
  IN  IF trimmedEmail # <<>> THEN SetAdd(allUniqueEmails, trimmedEmail)
      ELSE allUniqueEmails

RECURSIVE AddEmails(_, _)
AddEmails(allUniqueEmails, emails) ==
  IF emails = <<>> THEN allUniqueEmails
  ELSE AddEmails(AddEmail(allUniqueEmails, Head(emails)), Tail(emails))

\* email_params.tsx (plugin.ts lines 75-88)
getFormattedEmailOptions(searchValue, previousOptions) ==
  IF trim(searchValue) = <<>> THEN previousOptions
  ELSE LET previousEmails == MapSeq(previousOptions, LAMBDA option : option.label)
           allUniqueEmails == AddEmails(SetAddAll(<<>>, previousEmails),
                                        split(searchValue, ","))
       IN  MapSeq(allUniqueEmails, LAMBDA email : [label |-> email])

\* The combo box hands the typed text and the options chosen so far to
\* getFormattedEmailOptions.
FormatEmailOptions ==
  /\ emailOutput = None
  /\ emailOutput' = Some(getFormattedEmailOptions(emailInput.searchValue,
                                                  emailInput.previousOptions))
  /\ UNCHANGED <<emailInput, notEmailVars>>

InitEmail ==
  /\ emailInput \in
       [searchValue : SeqsUpTo(Chars, MaxSearchLen),
        previousOptions :
          {MapSeq(ls, LAMBDA l : [label |-> l]) :
             ls \in SeqsUpTo(PreviousLabels, MaxPrevious)}]
  /\ emailOutput = None

IdleEmail ==
  /\ emailInput = [searchValue |-> <<>>, previousOptions |-> <<>>]
  /\ emailOutput = None

NextEmail == FormatEmailOptions

\* The entries of a comma-separated text, read off the positions of its
\* commas: entry k holds the characters with k - 1 commas before them.
CommasBefore(str, i) == Cardinality({j \in 1..(i - 1) : str[j] = ","})
EntryAt(str, k) ==
  LET at == {i \in 1..Len(str) : str[i] # "," /\ CommasBefore(str, i) = k - 1}
  IN  IF at = {} THEN <<>>
      ELSE SubSeq(str, CHOOSE i \in at : \A j \in at : i <= j,
                       CHOOSE i \in at : \A j \in at : i >= j)
\* An entry without its surrounding blanks.
Stripped(entry) ==
  LET at == {i \in 1..Len(entry) : entry[i] # " "}
  IN  IF at = {} THEN <<>>
      ELSE SubSeq(entry, CHOOSE i \in at : \A j \in at : i <= j,
                         CHOOSE i \in at : \A j \in at : i >= j)
Blank(str) == \A i \in 1..Len(str) : str[i] = " "
\* The previous labels followed by the stripped, non-empty entries.
Candidates(searchValue, previousOptions) ==
  LET n == Cardinality({j \in 1..Len(searchValue) : searchValue[j] = ","}) + 1
      entries == [k \in 1..n |-> Stripped(EntryAt(searchValue, k))]
  IN  MapSeq(previousOptions, LAMBDA o : o.label)
        \o SelectSeq(entries, LAMBDA e : e # <<>>)
FirstAt(seq, x) == CHOOSE i \in 1..Len(seq) : seq[i] = x /\ \A j \in 1..(i - 1) : seq[j] # x

\* C8: getFormattedEmailOptions returns the previous labels followed by the
\* comma-separated entries of the search value, trimmed, without the empty
\* ones, each label once and in the order of its first occurrence, compared
\* case-sensitively; for a blank search value it returns the previous options
\* unchanged.
C8_EmailOptions ==
  emailOutput # None =>
    LET out == TheValue(emailOutput)
        labels == MapSeq(out, LAMBDA o : o.label)
        all == Candidates(emailInput.searchValue, emailInput.previousOptions)
    IN  IF Blank(emailInput.searchValue)
        THEN out = emailInput.previousOptions
        ELSE /\ Range(labels) = Range(all)
             /\ Injective(labels)
             /\ \A i, j \in 1..Len(labels) :
                  i < j => FirstAt(all, labels[i]) < FirstAt(all, labels[j])

\* The call with previous option "a" and the text "a, A" returned "a", "A".
C8_Witness ==
  /\ emailInput.previousOptions = <<[label |-> <<"a">>]>>
  /\ emailInput.searchValue = <<"a", ",", " ", "A">>
  /\ emailOutput = Some(<<[label |-> <<"a">>], [label |-> <<"A">>]>>)

(***************************************************************************)
(* VisualizationListingPlugin: setup, start, and the tab's getTableList.   *)
(* The platform calls setup once and start once after it; other plugins    *)
(* add their own tabs to the registry while the plugins are being set up.  *)
(***************************************************************************)
\* The most invocations of getTableList.
MaxTabCalls == 2

\* plugin.ts lines 50-82
visualizationsTabConfig ==
  [title |-> "Visualizations", id |-> "visualizations", owner |-> "setup"]

OtherTabs ==
  { [title |-> "Annotation groups", id |-> "annotations", owner |-> "eventAnnotationListing"],
    [title |-> "Other", id |-> "other", owner |-> "other"] }

\* listingViewRegistry.add on a Set kept in insertion order
RegistryAdd(registry, tab) == SetAdd(registry, tab)

\* The number of 'visualizations' tabs the registry holds.
TabCount ==
  IF dashboard = None THEN 0
  ELSE Cardinality({i \in 1..Len(TheValue(dashboard)) :
                      TheValue(dashboard)[i].id = "visualizations"})

\* setup that builds the table at registration time: it asks for the start
\* services itself instead of leaving that to getTableList.
SetupEager ==
  /\ lifecycle = "constructed"
  /\ lifecycle' = "setup"
  /\ dashboard' = IF dashboard # None
                  THEN Some(RegistryAdd(TheValue(dashboard), visualizationsTabConfig))
                  ELSE dashboard
  /\ tabCalls' = IF dashboard # None
                 THEN Append(tabCalls, [pc |-> "awaitStartServices",
                                        effects |-> <<"core.getStartServices">>])
                 ELSE tabCalls
  /\ setupOutcome' = "returned"
  /\ UNCHANGED <<pluginLog, notPluginVars>>

\* setup without the test of the optional dependency: the property access
\* on undefined throws.
SetupUnconditional ==
  /\ lifecycle = "constructed"
  /\ lifecycle' = "setup"
  /\ IF dashboard # None
     THEN /\ dashboard' = Some(RegistryAdd(TheValue(dashboard), visualizationsTabConfig))
          /\ setupOutcome' = "returned"
     ELSE /\ dashboard' = dashboard
          /\ setupOutcome' = "threw"
  /\ UNCHANGED <<pluginLog, tabCalls, notPluginVars>>

\* plugin.ts lines 47-86
Setup ==
  /\ lifecycle = "constructed"
  /\ lifecycle' = "setup"
  /\ dashboard' = IF dashboard # None
                  THEN Some(RegistryAdd(TheValue(dashboard), visualizationsTabConfig))
                  ELSE dashboard
  /\ setupOutcome' = "returned"
  /\ UNCHANGED <<pluginLog, tabCalls, notPluginVars>>

\* start that registers a tab descriptor of its own.
StartRegistersAgain ==
  /\ lifecycle = "setup"
  /\ lifecycle' = "started"
  /\ dashboard' = IF dashboard # None
                  THEN Some(RegistryAdd(TheValue(dashboard),
                                        [visualizationsTabConfig EXCEPT !.owner = "start"]))
                  ELSE dashboard
  /\ UNCHANGED <<setupOutcome, pluginLog, tabCalls, notPluginVars>>

\* plugin.ts line 88
Start ==
  /\ lifecycle = "setup"
  /\ lifecycle' = "started"
  /\ UNCHANGED <<dashboard, setupOutcome, pluginLog, tabCalls, notPluginVars>>

\* Another plugin adds its tab during its own setup.
OtherPluginRegisters ==
  /\ lifecycle # "started"
  /\ dashboard # None
  /\ \E tab \in OtherTabs :
       /\ tab \notin Range(TheValue(dashboard))
       /\ dashboard' = Some(RegistryAdd(TheValue(dashboard), tab))
  /\ UNCHANGED <<lifecycle, setupOutcome, pluginLog, tabCalls, notPluginVars>>

\* plugin.ts lines 55-56: the host renders the tab and calls getTableList,
\* which awaits core.getStartServices().
GetTableListCall ==
  /\ TabCount > 0
  /\ Len(tabCalls) < MaxTabCalls
  /\ tabCalls' = Append(tabCalls, [pc |-> "awaitStartServices",
                                   effects |-> <<"core.getStartServices">>])
  /\ UNCHANGED <<lifecycle, dashboard, setupOutcome, pluginLog, notPluginVars>>

\* plugin.ts lines 56-59: the start services resolve once the platform has
\* started; getTableList goes on to the dynamic import.
StartServicesResolved ==
  /\ lifecycle = "started"
  /\ \E i \in 1..Len(tabCalls) :
       /\ tabCalls[i].pc = "awaitStartServices"
       /\ tabCalls' = [tabCalls EXCEPT
                         ![i] = [pc |-> "awaitImport",
                                 effects |-> tabCalls[i].effects
                                               \o <<"startServices", "import">>]]
  /\ UNCHANGED <<lifecycle, dashboard, setupOutcome, pluginLog, notPluginVars>>

\* plugin.ts lines 57-80: the import resolves and GetVisualizationsTableList
\* builds the table from the props and the start services.
ImportResolved ==
  /\ \E i \in 1..Len(tabCalls) :
       /\ tabCalls[i].pc = "awaitImport"
       /\ tabCalls' = [tabCalls EXCEPT
                         ![i] = [pc |-> "built",
                                 effects |-> Append(tabCalls[i].effects,
                                                    "GetVisualizationsTableList")]]
  /\ UNCHANGED <<lifecycle, dashboard, setupOutcome, pluginLog, notPluginVars>>

\* The dashboard plugin is present, with what other plugins registered before
\* this one was set up, or absent.
InitPlugin ==
  /\ lifecycle = "constructed"
  /\ dashboard \in {None, Some(<<>>)}
  /\ setupOutcome = "none"
  /\ pluginLog = <<>>
  /\ tabCalls = <<>>

IdlePlugin ==
  /\ lifecycle = "constructed"
  /\ dashboard = None
  /\ setupOutcome = "none"
  /\ pluginLog = <<>>
  /\ tabCalls = <<>>

NextPlugin ==
  \/ Setup
  \/ Start
  \/ OtherPluginRegisters
  \/ GetTableListCall
  \/ StartServicesResolved
  \/ ImportResolved

\* C9: setup registers the 'visualizations' tab when the optional dashboard
\* dependency is supplied; when it is absent setup registers nothing and
\* returns without an error and without logging.
C9_ConditionalRegistration ==
  lifecycle # "constructed" =>
    /\ setupOutcome = "returned"
    /\ pluginLog = <<>>
    /\ IF dashboard # None
       THEN visualizationsTabConfig \in Range(TheValue(dashboard))
       ELSE TabCount = 0

\* setup has run without the dashboard dependency.
C9_Witness ==
  /\ lifecycle = "setup"
  /\ dashboard = None
  /\ setupOutcome = "returned"

\* C10: the tab registration goes from unregistered to registered at most
\* once, and only during setup; nothing afterwards (start, getTableList)
\* removes or re-adds it.
C10_RegisteredOnceInSetup ==
  [][ /\ TabCount' # TabCount =>
           /\ TabCount = 0
           /\ TabCount' = 1
           /\ lifecycle = "constructed"
           /\ lifecycle' = "setup"
      /\ (dashboard # None /\ visualizationsTabConfig \in Range(TheValue(dashboard))) =>
           (dashboard' # None /\ visualizationsTabConfig \in Range(TheValue(dashboard')))
    ]_vars

\* The plugin has started, the tab is registered once, and a table has been
\* built through getTableList.
C10_Witness ==
  /\ lifecycle = "started"
  /\ TabCount = 1
  /\ \E i \in 1..Len(tabCalls) : tabCalls[i].pc = "built"

\* What one invocation of getTableList does, in order (plugin.ts lines 56-80).
TableListSteps ==
  <<"core.getStartServices", "startServices", "import", "GetVisualizationsTableList">>

\* C11: getTableList is a deferred factory.  setup and start leave the start
\* services unresolved and build no table; an invocation of getTableList
\* begins by asking for the start services, and every invocation resolves
\* them before it builds the table list.
C11_DeferredFactory ==
  /\ [](\A i \in 1..Len(tabCalls) :
          /\ IsPrefix(tabCalls[i].effects, TableListSteps)
          /\ tabCalls[i].effects # <<>>
          /\ tabCalls[i].pc = "built" <=> tabCalls[i].effects = TableListSteps)
  /\ [][ /\ lifecycle' # lifecycle => tabCalls' = tabCalls
         /\ Len(tabCalls') # Len(tabCalls) =>
              /\ TabCount > 0
              /\ tabCalls' = Append(tabCalls, [pc |-> "awaitStartServices",
                                               effects |-> SubSeq(TableListSteps, 1, 1)])
       ]_vars

\* The tab was rendered twice, and both invocations resolved the start
\* services and then built their table.
C11_Witness ==
  /\ lifecycle = "started"
  /\ Len(tabCalls) = MaxTabCalls
  /\ \A i \in 1..Len(tabCalls) : tabCalls[i].effects = TableListSteps

(***************************************************************************)
(* getDashboardListingTabs: the tabs of the dashboard listing page, built  *)
(* from the built-in Dashboards tab and the listing view registry.         *)
(***************************************************************************)
\* The most listingViewRegistry.add calls.
MaxRegistrations == 3

\* The tabs plugins register; a plugin may add the same descriptor again.
RegistryTabs == {visualizationsTabConfig} \cup OtherTabs

\* lines 150-158: title, id: DASHBOARD_APP_ID, getTableList
dashboardsTab == [title |-> "Dashboards", id |-> "dashboards", owner |-> "dashboard"]

\* A variant that lists the registry tabs before the built-in tab.
getDashboardListingTabsRegistryFirst(registry) ==
  LET registryTabs == IF registry # None THEN TheValue(registry) ELSE <<>>
  IN  registryTabs \o <<dashboardsTab>>

\* lines 135-164: Array.from(Set) yields the elements in insertion order.
getDashboardListingTabs(registry) ==
  LET registryTabs == IF registry # None THEN TheValue(registry) ELSE <<>>
  IN  <<dashboardsTab>> \o registryTabs

\* A plugin's setup calls listingViewRegistry.add(tab).
RegisterTab ==
  /\ listingViewRegistry # None
  /\ Len(registrations) < MaxRegistrations
  /\ \E tab \in RegistryTabs :
       /\ listingViewRegistry' = Some(RegistryAdd(TheValue(listingViewRegistry), tab))
       /\ registrations' = Append(registrations, tab)
  /\ UNCHANGED <<listingTabs, notTabsVars>>

\* The listing page is rendered and asks for its tabs.
GetDashboardListingTabsCall ==
  /\ listingTabs' = Some([registered |-> registrations,
                          tabs |-> getDashboardListingTabs(listingViewRegistry)])
  /\ UNCHANGED <<listingViewRegistry, registrations, notTabsVars>>

\* The embedder passes a registry, empty before any plugin was set up, or none.
InitTabs ==
  /\ listingViewRegistry \in {None, Some(<<>>)}
  /\ registrations = <<>>
  /\ listingTabs = None

IdleTabs ==
  /\ listingViewRegistry = None
  /\ registrations = <<>>
  /\ listingTabs = None

NextTabs ==
  \/ RegisterTab
  \/ GetDashboardListingTabsCall

\* The position of the first add call for a tab (0: never added).
FirstRegistration(log, tab) ==
  IF tab \in Range(log) THEN CHOOSE i \in 1..Len(log) :
                                  log[i] = tab /\ \A j \in 1..(i - 1) : log[j] # tab
  ELSE 0

\* C26: getDashboardListingTabs returns the built-in Dashboards tab first and
\* after it every tab registered so far, each exactly once, in the order of
\* the tabs' first registration; without registered tabs it returns the
\* Dashboards tab alone.
C26_DashboardsTabThenRegistry ==
  listingTabs # None =>
    LET tabs == TheValue(listingTabs).tabs
        registered == TheValue(listingTabs).registered
        rest == Tail(tabs)
    IN  /\ tabs # <<>>
        /\ Head(tabs) = dashboardsTab
        /\ dashboardsTab \notin Range(rest)
        /\ Range(rest) = Range(registered)
        /\ \A a, b \in 1..Len(rest) :
             /\ rest[a] = rest[b] => a = b
             /\ a < b => FirstRegistration(registered, rest[a])
                           < FirstRegistration(registered, rest[b])
        /\ registered = <<>> => tabs = <<dashboardsTab>>

\* A tab was added, then another, then the first again: the page lists the
\* Dashboards tab and the two tabs, the first-registered before the other.
C26_Witness ==
  /\ listingTabs # None
  /\ Len(TheValue(listingTabs).registered) = 3
  /\ TheValue(listingTabs).registered[1] = TheValue(listingTabs).registered[3]
  /\ TheValue(listingTabs).registered[1] # TheValue(listingTabs).registered[2]
  /\ TheValue(listingTabs).tabs = <<dashboardsTab, TheValue(listingTabs).registered[1],
                                    TheValue(listingTabs).registered[2]>>

(***************************************************************************)
(* createItem of the dashboard listing: the create button, the overlay     *)
(* that asks about unsaved edits of the new dashboard, and the navigation. *)
(***************************************************************************)
\* The most clicks on the create button.
MaxCreateCalls == 3

\* The answers the overlay offers.
ConfirmAnswers == {"discard", "continue"}

\* confirmCreateWithUnsaved(startBlankCallback, contineCallback) of
\* ./confirm_overlays: which of its two arguments an answer invokes.
confirmCreateWithUnsaved(answer) ==
  IF answer = "discard" THEN "startBlankCallback" ELSE "contineCallback"

\* A variant of the first callback that navigates before it clears.
startBlankCallbackNavigateFirst == <<"goToDashboard", "clearState">>

\* lines 62-65: () => { dashboardBackupService.clearState(); goToDashboard(); }
startBlankCallback == <<"clearState", "goToDashboard">>

\* line 65: the second argument is goToDashboard itself.
contineCallback == <<"goToDashboard">>

\* The state after the effects of a callback, run in order.
RECURSIVE RunCreateEffects(_, _)
RunCreateEffects(state, effects) ==
  IF effects = <<>> THEN state
  ELSE RunCreateEffects(
         IF Head(effects) = "clearState" THEN [state EXCEPT !.edits = FALSE]
         ELSE IF Head(effects) = "goToDashboard" THEN [state EXCEPT !.pc = "editor"]
         ELSE state,
         Tail(effects))

CreateClicks == Len(SelectSeq(createLog, LAMBDA e : e = "createItem"))

\* lines 60-69: the create button is clicked.
CreateItemCall ==
  /\ createPc = "listing"
  /\ CreateClicks < MaxCreateCalls
  /\ IF useSessionStorageIntegration /\ hasUnsavedEdits
     THEN /\ createPc' = "confirming"
          /\ createLog' = createLog \o <<"createItem", "confirmCreateWithUnsaved">>
          /\ UNCHANGED hasUnsavedEdits
     ELSE LET after == RunCreateEffects([edits |-> hasUnsavedEdits, pc |-> createPc],
                                        <<"goToDashboard">>)
          IN  /\ createPc' = after.pc
              /\ hasUnsavedEdits' = after.edits
              /\ createLog' = createLog \o <<"createItem", "goToDashboard">>
  /\ UNCHANGED <<useSessionStorageIntegration, notCreateVars>>

\* The user answers the overlay, which invokes the callback of the answer.
ConfirmAnswered ==
  /\ createPc = "confirming"
  /\ \E answer \in ConfirmAnswers :
       LET effects == IF confirmCreateWithUnsaved(answer) = "startBlankCallback"
                      THEN startBlankCallback ELSE contineCallback
           after == RunCreateEffects([edits |-> hasUnsavedEdits, pc |-> createPc],
                                     effects)
       IN  /\ createPc' = after.pc
           /\ hasUnsavedEdits' = after.edits
           /\ createLog' = createLog \o <<answer>> \o effects
  /\ UNCHANGED <<useSessionStorageIntegration, notCreateVars>>

\* The user closes the overlay without an answer: no callback runs.
ConfirmClosed ==
  /\ createPc = "confirming"
  /\ createPc' = "listing"
  /\ createLog' = Append(createLog, "closed")
  /\ UNCHANGED <<useSessionStorageIntegration, hasUnsavedEdits, notCreateVars>>

\* The user comes back from the editor to the listing, having saved the new
\* dashboard or not.
ReturnToListing ==
  /\ createPc = "editor"
  /\ createPc' = "listing"
  /\ hasUnsavedEdits' \in BOOLEAN
  /\ createLog' = Append(createLog, "listing")
  /\ UNCHANGED <<useSessionStorageIntegration, notCreateVars>>

InitCreate ==
  /\ useSessionStorageIntegration \in BOOLEAN
  /\ hasUnsavedEdits \in BOOLEAN
  /\ createPc = "listing"
  /\ createLog = <<>>

IdleCreate ==
  /\ useSessionStorageIntegration = FALSE
  /\ hasUnsavedEdits = FALSE
  /\ createPc = "listing"
  /\ createLog = <<>>

NextCreate ==
  \/ CreateItemCall
  \/ ConfirmAnswered
  \/ ConfirmClosed
  \/ ReturnToListing

\* What a step appended to the log.
CreateAdded == SubSeq(createLog', Len(createLog) + 1, Len(createLog'))

\* C21: with session-storage integration and unsaved edits, createItem opens
\* the confirmation and neither navigates nor clears the backup until the user
\* answers; the backup is cleared only on the discard answer and before the
\* navigation; the other answer navigates without clearing; without unsaved
\* edits, or with the integration off, createItem navigates at once and never
\* clears.
C21_CreateItemConfirmsUnsaved ==
  /\ [](createPc = "confirming" =>
          /\ useSessionStorageIntegration /\ hasUnsavedEdits
          /\ createLog[Len(createLog)] = "confirmCreateWithUnsaved")
  /\ [][ /\ (createPc = "listing" /\ createPc' # "listing") =>
              IF useSessionStorageIntegration /\ hasUnsavedEdits
              THEN /\ createPc' = "confirming"
                   /\ hasUnsavedEdits'
                   /\ CreateAdded = <<"createItem", "confirmCreateWithUnsaved">>
              ELSE /\ createPc' = "editor"
                   /\ hasUnsavedEdits' = hasUnsavedEdits
                   /\ CreateAdded = <<"createItem", "goToDashboard">>
         /\ "clearState" \in Range(CreateAdded) =>
              /\ createPc = "confirming"
              /\ CreateAdded = <<"discard", "clearState", "goToDashboard">>
              /\ ~hasUnsavedEdits'
         /\ "continue" \in Range(CreateAdded) =>
              /\ createPc = "confirming"
              /\ CreateAdded = <<"continue", "goToDashboard">>
              /\ createPc' = "editor"
              /\ hasUnsavedEdits' = hasUnsavedEdits
         /\ (createPc # "editor" /\ hasUnsavedEdits' # hasUnsavedEdits) =>
              "clearState" \in Range(CreateAdded)
         /\ (createPc # "editor" /\ createPc' = "editor") <=>
              "goToDashboard" \in Range(CreateAdded)
       ]_vars

\* Both answers have been given in one session: the create button was clicked
\* over unsaved edits and the user discarded them, and after new edits it was
\* clicked again and the user kept them.
C21_Witness ==
  /\ createPc = "editor"
  /\ hasUnsavedEdits
  /\ createLog = <<"createItem", "confirmCreateWithUnsaved", "discard", "clearState",
                   "goToDashboard", "listing", "createItem",
                   "confirmCreateWithUnsaved", "continue", "goToDashboard">>

(***************************************************************************)
(* EmailParamsFields: the effect that keeps the message of the action in   *)
(* step with the default message of the rule type.                         *)
(***************************************************************************)
DefaultMessages == {None, Some("Alert fired"), Some("Alert recovered")}
MessageTexts == {"", "Alert fired", "Alert recovered", "custom"}

\* The condition of the effect without the isUsingDefault flag.
ShouldApplyDefaultIgnoringFlag(useDefault, msg, usage, default) ==
  \/ useDefault
  \/ ~Truthy(msg)
  \/ (msg = usage.defaultMessageUsed /\ usage.defaultMessageUsed # default)

\* lines 115-121: the condition of the effect.
ShouldApplyDefault(useDefault, msg, usage, default) ==
  \/ useDefault
  \/ ~Truthy(msg)
  \/ (/\ usage.isUsingDefault
      /\ msg = usage.defaultMessageUsed
      /\ usage.defaultMessageUsed # default)

\* lines 114-126: useEffect(..., [defaultMessage]), run with the default of
\* the render it follows.
DefaultMessageEffect(default) ==
  LET apply == ShouldApplyDefault(useDefaultMessage, actionMessage,
                                  defaultMessageUsage, default)
  IN  /\ IF apply
         THEN /\ defaultMessageUsage' = [isUsingDefault |-> TRUE,
                                         defaultMessageUsed |-> default]
              /\ actionMessage' = default
              /\ appliedLast' = Some(default)
         ELSE UNCHANGED <<defaultMessageUsage, actionMessage, appliedLast>>
      /\ lastEffect' = Some([useDefaultMessage |-> useDefaultMessage,
                             message |-> actionMessage,
                             applied |-> appliedLast,
                             defaultMessage |-> default,
                             overwrote |-> apply,
                             result |-> actionMessage'])

\* lines 111-113 and the first run of the effect: the component is mounted.
MountEmailParams ==
  /\ ~paramsMounted
  /\ paramsMounted' = TRUE
  /\ DefaultMessageEffect(defaultMessage)
  /\ UNCHANGED <<useDefaultMessage, defaultMessage, notMessageVars>>

\* The parent passes another defaultMessage: the effect runs again.
DefaultMessageChanged ==
  /\ paramsMounted
  /\ \E default \in DefaultMessages \ {defaultMessage} :
       /\ defaultMessage' = default
       /\ DefaultMessageEffect(default)
  /\ UNCHANGED <<paramsMounted, useDefaultMessage, notMessageVars>>

\* line 311: the user types in the message field, editAction('message', text).
UserEditsMessage ==
  /\ paramsMounted
  /\ \E text \in MessageTexts :
       /\ Some(text) # actionMessage
       /\ actionMessage' = Some(text)
  /\ UNCHANGED <<paramsMounted, useDefaultMessage, defaultMessage,
                 defaultMessageUsage, appliedLast, lastEffect, notMessageVars>>

\* The form opens on a new action or on a saved one.
InitMessage ==
  /\ paramsMounted = FALSE
  /\ useDefaultMessage \in BOOLEAN
  /\ defaultMessage \in DefaultMessages
  /\ actionMessage \in {None} \cup {Some(text) : text \in MessageTexts}
  /\ defaultMessageUsage = [isUsingDefault |-> FALSE,
                            defaultMessageUsed |-> defaultMessage]
  /\ appliedLast = None
  /\ lastEffect = None

IdleMessage ==
  /\ paramsMounted = FALSE
  /\ useDefaultMessage = FALSE
  /\ defaultMessage = None
  /\ actionMessage = None
  /\ defaultMessageUsage = [isUsingDefault |-> FALSE, defaultMessageUsed |-> None]
  /\ appliedLast = None
  /\ lastEffect = None

NextMessage ==
  \/ MountEmailParams
  \/ DefaultMessageChanged
  \/ UserEditsMessage

\* C27: across any sequence of defaultMessage changes, the effect overwrites
\* the message, and then with the new default, only if useDefaultMessage is
\* set, the message is empty, or the message still equals the default the
\* component applied last; a message the user changed away from the applied
\* default (not empty, useDefaultMessage not set) is left as it is.
C27_DefaultMessageOverwrite ==
  lastEffect # None =>
    LET run == TheValue(lastEffect)
        stillApplied == run.applied # None /\ run.message = TheValue(run.applied)
    IN  /\ run.overwrote =>
             /\ run.useDefaultMessage \/ ~Truthy(run.message) \/ stillApplied
             /\ run.result = run.defaultMessage
        /\ ~run.overwrote => run.result = run.message
        /\ (~run.useDefaultMessage /\ Truthy(run.message) /\ ~stillApplied) =>
             (~run.overwrote /\ run.result = run.message)

\* The component applied a default, the user typed a message of their own,
\* and the next change of the default left that message alone.
C27_Witness ==
  /\ lastEffect # None
  /\ appliedLast # None
  /\ TheValue(lastEffect).applied = appliedLast
  /\ TheValue(lastEffect).message = Some("custom")
  /\ ~TheValue(lastEffect).overwrote
  /\ actionMessage = Some("custom")
  /\ defaultMessage # TheValue(appliedLast)

(***************************************************************************)
(* TLSRuleComponent: the thresholds handed to AlertTlsComponent.           *)
(***************************************************************************)
\* JavaScript numbers: a finite value or NaN.
Num(n) == [nan |-> FALSE, value |-> n]
NaN == [nan |-> TRUE, value |-> 0]

\* What the threshold inputs hand to setAgeThreshold and setExpirationThreshold.
ThresholdInputs == {"", "0", "7", "abc"}

\* Number(value) on the inputs above: the empty string is 0, text is NaN.
Number(value) ==
  CASE value = "" -> Num(0)
    [] value = "0" -> Num(0)
    [] value = "7" -> Num(7)
    [] OTHER -> NaN

\* The thresholds a saved rule or the settings document may carry.
SavedThresholds == {None, Some(Num(0)), Some(Num(365))}
ThresholdFields == {"certAgeThreshold", "certExpirationThreshold"}

\* DYNAMIC_SETTINGS_DEFAULTS of common/constants
DYNAMIC_SETTINGS_DEFAULTS ==
  [certAgeThreshold |-> Some(Num(730)), certExpirationThreshold |-> Some(Num(30))]

\* a ?? b on optional values
Nullish(a, b) == IF a # None THEN a ELSE b

\* a || b on optional numbers: undefined, 0 and NaN are falsy
Falsy(a) == a = None \/ TheValue(a).nan \/ TheValue(a).value = 0
LogicalOr(a, b) == IF ~Falsy(a) THEN a ELSE b

\* settings?.field
SettingsField(s, field) == IF s = None THEN None ELSE TheValue(s)[field]

\* The threshold chosen with || in place of ??.
ThresholdTruthy(params, s, field) ==
  LogicalOr(params[field], LogicalOr(SettingsField(s, field),
                                     DYNAMIC_SETTINGS_DEFAULTS[field]))

\* lines 32-41: ruleParams.x ?? settings?.x ?? DYNAMIC_SETTINGS_DEFAULTS.x
Threshold(params, s, field) ==
  Nullish(params[field], Nullish(SettingsField(s, field),
                                 DYNAMIC_SETTINGS_DEFAULTS[field]))

\* lines 30-44: what one render hands to AlertTlsComponent.
TLSRuleComponent(params, s) ==
  [ageThreshold |-> Threshold(params, s, "certAgeThreshold"),
   expirationThreshold |-> Threshold(params, s, "certExpirationThreshold")]

\* lines 22-44: the first render, and the effect that asks for the settings
\* when the store has none.
MountTLSRule ==
  /\ tlsProps = None
  /\ tlsProps' = Some(TLSRuleComponent(ruleParams, settings))
  /\ settingsFetch' = IF settings = None THEN "pending" ELSE settingsFetch
  /\ UNCHANGED <<ruleParams, settings, notTlsVars>>

\* The request resolves, the store holds the settings, the component renders
\* again.
SettingsLoaded ==
  /\ settingsFetch = "pending"
  /\ \E age, expiration \in SavedThresholds :
       LET loaded == Some([certAgeThreshold |-> age,
                           certExpirationThreshold |-> expiration])
       IN  /\ settings' = loaded
           /\ tlsProps' = Some(TLSRuleComponent(ruleParams, loaded))
  /\ settingsFetch' = "done"
  /\ UNCHANGED <<ruleParams, notTlsVars>>

\* lines 42-43: the user edits a threshold; setRuleParams(field, Number(value))
\* updates the rule and the component renders again.
SetThreshold ==
  /\ tlsProps # None
  /\ \E field \in ThresholdFields, value \in ThresholdInputs :
       LET params == [ruleParams EXCEPT ![field] = Some(Number(value))]
       IN  /\ ruleParams' = params
           /\ tlsProps' = Some(TLSRuleComponent(params, settings))
  /\ UNCHANGED <<settings, settingsFetch, notTlsVars>>

\* A new or a saved rule; the store holds the settings already or not.
InitTls ==
  /\ ruleParams \in [ThresholdFields -> SavedThresholds]
  /\ settings \in {None} \cup {Some(s) : s \in [ThresholdFields -> SavedThresholds]}
  /\ settingsFetch = "none"
  /\ tlsProps = None

IdleTls ==
  /\ ruleParams = [f \in ThresholdFields |-> None]
  /\ settings = None
  /\ settingsFetch = "none"
  /\ tlsProps = None

NextTls ==
  \/ MountTLSRule
  \/ SettingsLoaded
  \/ SetThreshold

\* The value the claim names for one threshold.
ExpectedThreshold(field) ==
  IF ruleParams[field] # None THEN ruleParams[field]
  ELSE IF settings # None /\ TheValue(settings)[field] # None
       THEN TheValue(settings)[field]
       ELSE DYNAMIC_SETTINGS_DEFAULTS[field]

\* C28: for the age and the expiration threshold the component shows the rule
\* parameter when it is set (0 included), otherwise the loaded dynamic
\* setting, otherwise the built-in default; what it shows is always defined,
\* also while the settings are being fetched.
C28_ThresholdPrecedence ==
  tlsProps # None =>
    /\ TheValue(tlsProps).ageThreshold = ExpectedThreshold("certAgeThreshold")
    /\ TheValue(tlsProps).expirationThreshold
         = ExpectedThreshold("certExpirationThreshold")
    /\ TheValue(tlsProps).ageThreshold # None
    /\ TheValue(tlsProps).expirationThreshold # None
    /\ settingsFetch = "pending" => settings = None

\* The settings have been fetched and loaded: the age threshold of the rule
\* is 0 and is shown as 0 over a loaded setting of 365, the expiration
\* threshold of the rule is unset and the loaded setting is shown.
C28_Witness ==
  /\ tlsProps # None
  /\ settingsFetch = "done"
  /\ ruleParams["certAgeThreshold"] = Some(Num(0))
  /\ ruleParams["certExpirationThreshold"] = None
  /\ TheValue(settings)["certAgeThreshold"] = Some(Num(365))
  /\ TheValue(settings)["certExpirationThreshold"] = Some(Num(365))
  /\ TheValue(tlsProps) = [ageThreshold |-> Some(Num(0)),
                           expirationThreshold |-> Some(Num(365))]

(***************************************************************************)
(* PositiveInteger: the io-ts type and the message its tests read off the  *)
(* decoded value with foldLeftRight and getPaths.                          *)
(***************************************************************************)
\* The largest magnitude of a numeric payload.
MaxPayload == 30

\* Payloads: numbers in sign and magnitude, whole or with a half, and strings.
NumberPayload(negative, whole, half) ==
  [type |-> "number", negative |-> negative, whole |-> whole, half |-> half,
   text |-> ""]
StringPayload(text) ==
  [type |-> "string", negative |-> FALSE, whole |-> 0, half |-> FALSE,
   text |-> text]
\* {}: the schema of a payload that was not decoded
EmptyObject ==
  [type |-> "object", negative |-> FALSE, whole |-> 0, half |-> FALSE, text |-> ""]

Payloads ==
  ({NumberPayload(negative, whole, half) :
      negative \in BOOLEAN, whole \in 0..MaxPayload, half \in BOOLEAN}
     \ {NumberPayload(TRUE, 0, FALSE)})
  \cup {StringPayload(text) : text \in {"some string", "1", ""}}

IsNegative(p) == p.type = "number" /\ p.negative
IsInteger(p) == p.type = "number" /\ ~p.half

\* The payload as the error message prints it.
PayloadText(p) ==
  IF p.type = "number"
  THEN (IF p.negative THEN "-" ELSE "") \o ToString(p.whole)
         \o (IF p.half THEN ".5" ELSE "")
  ELSE p.text

\* lines 40 and 51: the one message of a rejected payload
InvalidValueMessage(p) ==
  "Invalid value \"" \o PayloadText(p) \o "\" supplied to \"PositiveInteger\""

\* The guard of a type that accepts the integers above zero only.
PositiveIntegerIsAboveZero(p) == IsInteger(p) /\ ~p.negative /\ p.whole > 0

\* PositiveInteger.is: a number that is an integer and not below zero.
PositiveIntegerIs(p) == IsInteger(p) /\ ~p.negative

\* pipe(PositiveInteger.decode(payload), foldLeftRight) with the errors read
\* through getPaths: a Right carries the payload, a Left one validation error.
PositiveIntegerDecode(p) ==
  IF PositiveIntegerIs(p)
  THEN [errors |-> <<>>, schema |-> p]
  ELSE [errors |-> <<InvalidValueMessage(p)>>, schema |-> EmptyObject]

\* lines 15-54: the four tests, each a payload and the message it expects.
TestCases ==
  { [payload |-> NumberPayload(FALSE, 1, FALSE),
     message |-> [errors |-> <<>>, schema |-> NumberPayload(FALSE, 1, FALSE)]],
    [payload |-> NumberPayload(FALSE, 0, FALSE),
     message |-> [errors |-> <<>>, schema |-> NumberPayload(FALSE, 0, FALSE)]],
    [payload |-> NumberPayload(TRUE, 1, FALSE),
     message |-> [errors |-> <<"Invalid value \"-1\" supplied to \"PositiveInteger\"">>,
                  schema |-> EmptyObject]],
    [payload |-> StringPayload("some string"),
     message |-> [errors |-> <<"Invalid value \"some string\" supplied to \"PositiveInteger\"">>,
                  schema |-> EmptyObject]] }

\* const decoded = PositiveInteger.decode(payload), folded into the message.
DecodePayload ==
  /\ decoded = None
  /\ decoded' = Some(PositiveIntegerDecode(payload))
  /\ UNCHANGED <<payload, notDecodeVars>>

\* The next call, with a payload of its own.
NextPayload ==
  /\ decoded # None
  /\ payload' \in Payloads
  /\ decoded' = None
  /\ UNCHANGED notDecodeVars

InitDecode ==
  /\ payload \in Payloads
  /\ decoded = None

IdleDecode ==
  /\ payload = EmptyObject
  /\ decoded = None

NextDecode ==
  \/ DecodePayload
  \/ NextPayload

InitSpecDelete == InitDelete /\ IdleFind /\ IdleProps /\ IdleEditor /\ IdleEmail /\ IdlePlugin
  /\ IdleTabs /\ IdleCreate /\ IdleMessage /\ IdleTls /\ IdleDecode
SpecDelete == InitSpecDelete /\ [][NextDelete]_vars

InitSpecFind == InitFind /\ IdleDelete /\ IdleProps /\ IdleEditor /\ IdleEmail /\ IdlePlugin
  /\ IdleTabs /\ IdleCreate /\ IdleMessage /\ IdleTls /\ IdleDecode
SpecFind == InitSpecFind /\ [][NextFind]_vars
InitSpecProps == InitProps /\ IdleDelete /\ IdleFind /\ IdleEditor /\ IdleEmail /\ IdlePlugin
  /\ IdleTabs /\ IdleCreate /\ IdleMessage /\ IdleTls /\ IdleDecode
SpecProps == InitSpecProps /\ [][NextProps]_vars
InitSpecEditor == InitEditor /\ IdleDelete /\ IdleProps /\ IdleEmail /\ IdlePlugin
  /\ IdleTabs /\ IdleCreate /\ IdleMessage /\ IdleTls /\ IdleDecode
SpecEditor == InitSpecEditor /\ [][NextEditor]_vars
InitSpecEmail == InitEmail /\ IdleDelete /\ IdleFind /\ IdleProps /\ IdleEditor /\ IdlePlugin
  /\ IdleTabs /\ IdleCreate /\ IdleMessage /\ IdleTls /\ IdleDecode
SpecEmail == InitSpecEmail /\ [][NextEmail]_vars
InitSpecPlugin ==
  InitPlugin /\ IdleDelete /\ IdleFind /\ IdleProps /\ IdleEditor /\ IdleEmail
  /\ IdleTabs /\ IdleCreate /\ IdleMessage /\ IdleTls /\ IdleDecode
SpecPlugin == InitSpecPlugin /\ [][NextPlugin]_vars
InitSpecTabs == InitTabs /\ IdleDelete /\ IdleFind /\ IdleProps /\ IdleEditor
  /\ IdleEmail /\ IdlePlugin /\ IdleCreate /\ IdleMessage /\ IdleTls
  /\ IdleDecode
SpecTabs == InitSpecTabs /\ [][NextTabs]_vars
InitSpecCreate == InitCreate /\ IdleDelete /\ IdleFind /\ IdleProps
  /\ IdleEditor /\ IdleEmail /\ IdlePlugin /\ IdleTabs /\ IdleMessage
  /\ IdleTls /\ IdleDecode
SpecCreate == InitSpecCreate /\ [][NextCreate]_vars
InitSpecMessage == InitMessage /\ IdleDelete /\ IdleFind /\ IdleProps
  /\ IdleEditor /\ IdleEmail /\ IdlePlugin /\ IdleTabs /\ IdleCreate
  /\ IdleTls /\ IdleDecode
SpecMessage == InitSpecMessage /\ [][NextMessage]_vars
InitSpecTls == InitTls /\ IdleDelete /\ IdleFind /\ IdleProps /\ IdleEditor
  /\ IdleEmail /\ IdlePlugin /\ IdleTabs /\ IdleCreate /\ IdleMessage
  /\ IdleDecode
SpecTls == InitSpecTls /\ [][NextTls]_vars
InitSpecDecode == InitDecode /\ IdleDelete /\ IdleFind /\ IdleProps
  /\ IdleEditor /\ IdleEmail /\ IdlePlugin /\ IdleTabs /\ IdleCreate
  /\ IdleMessage /\ IdleTls
SpecDecode == InitSpecDecode /\ [][NextDecode]_vars

====
